---- MODULE Spec2Model ----
(***************************************************************************)
(* Time-value normalisation pipeline of F1_Data_Engineering.               *)
(*                                                                         *)
(* The extractor (src/src/extract/f1_dataExtractor.py) encodes durations   *)
(* as fixed-width strings, the transform (src/src/transform/               *)
(* f1_dataTransform.py) parses those strings back into timedeltas.         *)
(*                                                                         *)
(* Representation.                                                         *)
(*   - A Python string is a sequence of one-character strings.             *)
(*   - A numeric seconds value is [kind |-> "num", neg, ms, us]: the       *)
(*     magnitude is ms milliseconds plus us microseconds (0..999), so that *)
(*     seconds_val * 1000 is the exact rational ms + us/1000.  Binary      *)
(*     floating point error is not modelled; every tie used below          *)
(*     (x.5 ms) is a value on which the Python product is the exact tie.   *)
(*   - NaN / NaT / None are [kind |-> "nan"], [kind |-> "nat"],            *)
(*     [kind |-> "none"]; +-inf is [kind |-> "inf", neg].                  *)
(*   - A pandas Timedelta is [kind |-> "td", ms |-> signed milliseconds].  *)
(***************************************************************************)
EXTENDS Integers, Sequences, FiniteSets, TLC

VARIABLES
    pc,           \* "idle" | "encoded" | "parsed": position of the cell in the pipeline
    variant,      \* which writer produced the cell
    arg,          \* the argument handed to the writer
    cell,         \* the value written to the CSV cell / handed to the parser
    td,           \* the parser's result for the cell
    warning       \* the warning the parser logged for the cell, "" if none

\* what a second application of a transformation and the dashboard make of the cell
VARIABLES
    second_pass,  \* the result of applying the same transformation to its own result
    seconds       \* the dashboard's <OriginalName>Seconds value for the cell

codec_vars == <<pc, variant, arg, cell, td, warning, second_pass, seconds>>

\* get_session_data, one column of one output file of one session
VARIABLES
    s_pc,                                \* position in get_session_data
    session_date,                        \* session.date, the UTC session start
    raw_date_from_event,                 \* what session.event.get_session_date gives
    local_session_start_time_arrow_obj,
    local_session_start_time_iso,
    utc_session_start_time_iso,
    event_info,                          \* the row written to event_info.csv
    s_file,                              \* the output file the column belongs to
    col_name,                            \* the column at hand
    rows,                                \* the column as the provider delivers it
    row_index,                           \* rows of the column handled by the loop
    abs_times,                           \* the list the loop appends to
    written                              \* the column as it is saved

session_vars == <<s_pc, session_date, raw_date_from_event,
                  local_session_start_time_arrow_obj,
                  local_session_start_time_iso, utc_session_start_time_iso,
                  event_info, s_file, col_name, rows, row_index, abs_times,
                  written>>

\* main_transform, one walk over the files of the input directory
VARIABLES
    t_pc,                                \* position in main_transform
    input_dir_exists,                    \* os.path.exists(input_base_dir)
    files,                               \* the files os.walk yields, in order
    file_index,                          \* files the walk has passed
    outputs,                             \* what is on disk under the output directory
    reports                              \* how each call of transform_csv_file ended

transform_vars == <<t_pc, input_dir_exists, files, file_index, outputs, reports>>

\* main of the extractor, one run over the configured years
VARIABLES
    m_pc,                                \* position in main
    years_list,                          \* the years to extract, in order
    events_list,                         \* None, a dict year -> events, or a list of events
    schedule,                            \* what fastf1.get_event_schedule gives per year
    load_fails,                          \* the (event, session key) pairs whose load raises
    year_index,                          \* years the outer loop has taken
    current_year_events_specifiers,
    event_index,                         \* events of the year the loop has taken
    session_index,                       \* session keys of the event the loop has taken
    attempts,                            \* the calls of get_session_data, in order
    session_output                       \* the sessions that have files on disk

main_vars == <<m_pc, years_list, events_list, schedule, load_fails, year_index,
               current_year_events_specifiers, event_index, session_index,
               attempts, session_output>>

\* get_session_data, the lap telemetry summary of one session
VARIABLES
    tel_pc,                              \* position in the telemetry summary block
    laps_df_columns,                     \* the columns of laps_df
    lap_rows,                            \* the laps, in the order the loops visit them
    lap_index,                           \* laps the loop has taken
    all_lap_telemetry_summary,           \* the list the loop appends to
    lap_telemetry_summary_csv            \* lap_telemetry_summary.csv, once written

telemetry_vars == <<tel_pc, laps_df_columns, lap_rows, lap_index,
                    all_lap_telemetry_summary, lap_telemetry_summary_csv>>

vars == <<codec_vars, session_vars, transform_vars, main_vars, telemetry_vars>>

----------------------------------------------------------------------------
(* Bounds of the model *)

\* anchors of the numeric inputs are widened by this many milliseconds each way
MaxNeighbourMs == 1
\* largest number of colon-separated groups in a hand-made cell
MaxGroups == 4

----------------------------------------------------------------------------
(* Values *)

NaN  == [kind |-> "nan"]
None == [kind |-> "none"]
NaT  == [kind |-> "nat"]
NoValue == [kind |-> "unset"]

\* the variables of get_session_data while no session is extracted
SessionUnused ==
    /\ s_pc = "unused"
    /\ session_date = NoValue
    /\ raw_date_from_event = NoValue
    /\ local_session_start_time_arrow_obj = NoValue
    /\ local_session_start_time_iso = NoValue
    /\ utc_session_start_time_iso = NoValue
    /\ event_info = NoValue
    /\ s_file = ""
    /\ col_name = ""
    /\ rows = <<>>
    /\ row_index = 0
    /\ abs_times = <<>>
    /\ written = NoValue

\* the variables of main while no extraction runs
MainUnused ==
    /\ m_pc = "unused"
    /\ years_list = <<>>
    /\ events_list = NoValue
    /\ schedule = NoValue
    /\ load_fails = {}
    /\ year_index = 0
    /\ current_year_events_specifiers = <<>>
    /\ event_index = 0
    /\ session_index = 0
    /\ attempts = <<>>
    /\ session_output = {}

\* the variables of the telemetry summary block while it does not run
TelemetryUnused ==
    /\ tel_pc = "unused"
    /\ laps_df_columns = {}
    /\ lap_rows = <<>>
    /\ lap_index = 0
    /\ all_lap_telemetry_summary = <<>>
    /\ lap_telemetry_summary_csv = NoValue

\* the variables of main_transform while nothing is transformed
TransformUnused ==
    /\ t_pc = "unused"
    /\ input_dir_exists = FALSE
    /\ files = <<>>
    /\ file_index = 0
    /\ outputs = <<>>
    /\ reports = <<>>

Str(s) == [kind |-> "str", s |-> s]
Num(neg, ms, us) == [kind |-> "num", neg |-> neg, ms |-> ms, us |-> us]
Inf(neg) == [kind |-> "inf", neg |-> neg]
Timedelta(ms) == [kind |-> "td", ms |-> ms]

\* pd.isna on a scalar
isna(v) == v.kind \in {"nan", "none", "nat"}

\* isinstance(v, (int, float)); NaN and inf are floats
is_int_or_float(v) == v.kind \in {"num", "inf", "nan"}

----------------------------------------------------------------------------
(* Characters and strings *)

Digit == {"0", "1", "2", "3", "4", "5", "6", "7", "8", "9"}

DigitChar(d) ==
    CASE d = 0 -> "0" [] d = 1 -> "1" [] d = 2 -> "2" [] d = 3 -> "3"
      [] d = 4 -> "4" [] d = 5 -> "5" [] d = 6 -> "6" [] d = 7 -> "7"
      [] d = 8 -> "8" [] d = 9 -> "9"

DigitVal(c) ==
    CASE c = "0" -> 0 [] c = "1" -> 1 [] c = "2" -> 2 [] c = "3" -> 3
      [] c = "4" -> 4 [] c = "5" -> 5 [] c = "6" -> 6 [] c = "7" -> 7
      [] c = "8" -> 8 [] c = "9" -> 9

\* str(n) for an integer n >= 0
RECURSIVE Decimal(_)
Decimal(n) == IF n < 10 THEN <<DigitChar(n)>>
              ELSE Decimal(n \div 10) \o <<DigitChar(n % 10)>>

\* int(s) for a string of decimal digits
RECURSIVE int(_)
int(s) == IF s = <<>> THEN 0
          ELSE 10 * int(SubSeq(s, 1, Len(s) - 1)) + DigitVal(s[Len(s)])

RECURSIVE Zeros(_)
Zeros(n) == IF n <= 0 THEN <<>> ELSE <<"0">> \o Zeros(n - 1)

\* faulty variant: the width of the format spec is ignored
zfill_nopad(n, width) == Decimal(n)

\* faulty variant: the field is cut to its width, the leading digits are lost
zfill_cut(n, width) ==
    Zeros(width - Len(Decimal(n % (10 ^ width)))) \o Decimal(n % (10 ^ width))

\* f"{n:0<width>d}" for n >= 0: at least width digits, never truncated
zfill(n, width) == Zeros(width - Len(Decimal(n))) \o Decimal(n)

----------------------------------------------------------------------------
(* Extractor: the three numeric encoders *)

\* floor(a / b) for b > 0, as Python's // gives it
FloorDiv(a, b) == IF a >= 0 THEN a \div b ELSE 0 - ((b - 1 - a) \div b)

\* the text pandas gives a Timedelta of ms milliseconds, in str() and in
\* to_csv: "<days> days HH:MM:SS[.ffffff]", the days rounded down and the
\* time of day after a "+" when the days are negative
timedelta_str(ms) ==
    LET days == FloorDiv(ms, 86400000)
        rest == ms - days * 86400000
        frac == rest % 1000
    IN  (IF days < 0 THEN <<"-">> \o Decimal(0 - days) ELSE Decimal(days))
        \o <<" ", "d", "a", "y", "s", " ">>
        \o (IF days < 0 THEN <<"+">> ELSE <<>>)
        \o zfill(rest \div 3600000, 2) \o <<":">>
        \o zfill((rest \div 60000) % 60, 2) \o <<":">>
        \o zfill((rest \div 1000) % 60, 2)
        \o (IF frac = 0 THEN <<>>
            ELSE <<".">> \o zfill(frac, 3) \o <<"0", "0", "0">>)

\* str(v) of a value that is not a float
str(v) == IF v.kind = "str" THEN v.s
          ELSE IF v.kind = "none" THEN <<"N", "o", "n", "e">>
          ELSE IF v.kind = "nan" THEN <<"n", "a", "n">>
          ELSE IF v.kind = "td" THEN timedelta_str(v.ms)
          ELSE <<"N", "a", "T">>

\* faulty variant: the fraction is cut off, as int(x) does
py_round_truncate(whole, num, den) == whole

\* round(whole + num/den) of Python 3 for 0 <= num < den: nearest integer,
\* a tie goes to the even neighbour
py_round(whole, num, den) ==
    IF 2 * num < den THEN whole
    ELSE IF 2 * num > den THEN whole + 1
    ELSE IF whole % 2 = 0 THEN whole ELSE whole + 1

\* faulty variant: the sign is taken from the whole milliseconds of the
\* magnitude, so it is lost when nothing but a fraction is left
lt_zero_whole_ms(v) == v.neg /\ v.ms > 0

\* seconds_val < 0 (negative zero is not below zero)
lt_zero(v) == v.neg /\ (v.ms > 0 \/ v.us > 0)

\* faulty variant: the non-numeric branch gives the missing marker
non_numeric_result_nan(v) == NaN

\* the value returned for an input that is no int or float: "returning as is"
non_numeric_result(v) == Str(str(v))

\* faulty variant: only a float NaN counts as missing
isna_float_only(v) == v.kind = "nan"

\* the guard `if pd.isna(seconds_val)` of the encoders
encoder_isna(v) == isna(v)

\* faulty variant: the fields are taken from the float seconds and only the
\* fraction is rounded, so a fraction that rounds to 1000 is not carried
format_seconds_to_mmssms_no_carry(v) ==
    IF encoder_isna(v) THEN NaN
    ELSE IF ~is_int_or_float(v) THEN non_numeric_result(v)
    ELSE IF v.kind = "inf" THEN NaN
    ELSE
      LET sign == IF lt_zero(v) THEN <<"-">> ELSE <<>>
          minutes == v.ms \div (60 * 1000)
          seconds_part == (v.ms % (60 * 1000)) \div 1000
          milliseconds_part == py_round(v.ms % 1000, v.us, 1000)
      IN  Str(sign \o zfill(minutes, 2) \o <<":">> \o zfill(seconds_part, 2)
                   \o <<":">> \o zfill(milliseconds_part, 3))

format_seconds_to_mmssms(v) ==
    IF encoder_isna(v) THEN NaN
    ELSE IF ~is_int_or_float(v) THEN non_numeric_result(v)
    ELSE IF v.kind = "inf" THEN NaN     \* int(round(inf)) raises inside the try
    ELSE
      LET sign == IF lt_zero(v) THEN <<"-">> ELSE <<>>
          total_milliseconds == py_round(v.ms, v.us, 1000)
          minutes == total_milliseconds \div (60 * 1000)
          remainder_milliseconds_after_minutes == total_milliseconds % (60 * 1000)
          seconds_part == remainder_milliseconds_after_minutes \div 1000
          milliseconds_part == remainder_milliseconds_after_minutes % 1000
      IN  Str(sign \o zfill(minutes, 2) \o <<":">> \o zfill(seconds_part, 2)
                   \o <<":">> \o zfill(milliseconds_part, 3))

format_seconds_to_hhmmss(v) ==
    IF encoder_isna(v) THEN NaN
    ELSE IF ~is_int_or_float(v) THEN non_numeric_result(v)
    ELSE IF v.kind = "inf" THEN NaN
    ELSE
      LET sign == IF lt_zero(v) THEN <<"-">> ELSE <<>>
          total_seconds_int ==
              py_round(v.ms \div 1000, (v.ms % 1000) * 1000 + v.us, 1000000)
          hours == total_seconds_int \div 3600
          remainder_seconds_after_hours == total_seconds_int % 3600
          minutes == remainder_seconds_after_hours \div 60
          seconds_part == remainder_seconds_after_hours % 60
      IN  Str(sign \o zfill(hours, 2) \o <<":">> \o zfill(minutes, 2)
                   \o <<":">> \o zfill(seconds_part, 2))

format_seconds_to_hhmmssms(v) ==
    IF encoder_isna(v) THEN NaN
    ELSE IF ~is_int_or_float(v) THEN non_numeric_result(v)
    ELSE IF v.kind = "inf" THEN NaN
    ELSE
      LET sign == IF lt_zero(v) THEN <<"-">> ELSE <<>>
          total_milliseconds == py_round(v.ms, v.us, 1000)
          hours == total_milliseconds \div (3600 * 1000)
          remainder_after_hours == total_milliseconds % (3600 * 1000)
          minutes == remainder_after_hours \div (60 * 1000)
          remainder_after_minutes == remainder_after_hours % (60 * 1000)
          seconds_part == remainder_after_minutes \div 1000
          milliseconds_part == remainder_after_minutes % 1000
      IN  Str(sign \o zfill(hours, 2) \o <<":">> \o zfill(minutes, 2)
                   \o <<":">> \o zfill(seconds_part, 2)
                   \o <<":">> \o zfill(milliseconds_part, 3))

----------------------------------------------------------------------------
(* Extractor: the two formatters of an absolute instant *)

\* An Arrow instant is [kind |-> "arrow", ms]: milliseconds since local
\* midnight of its wall-clock time.
Arrow(ms) == [kind |-> "arrow", ms |-> ms]

\* the guard `arrow_obj is None or pd.isna(arrow_obj)`
arrow_missing(arrow_obj) == arrow_obj.kind = "none" \/ isna(arrow_obj)

\* arrow_obj.format("HH:mm:ss:SSS")
format_arrow_to_hhmmssms(arrow_obj) ==
    IF arrow_missing(arrow_obj) THEN NaN
    ELSE IF arrow_obj.kind # "arrow" THEN NaN   \* .format raises inside the try
    ELSE Str(zfill(arrow_obj.ms \div 3600000, 2) \o <<":">>
             \o zfill((arrow_obj.ms % 3600000) \div 60000, 2) \o <<":">>
             \o zfill((arrow_obj.ms % 60000) \div 1000, 2) \o <<":">>
             \o zfill(arrow_obj.ms % 1000, 3))

\* arrow_obj.format("HH:mm:ss")
format_arrow_to_hhmmss(arrow_obj) ==
    IF arrow_missing(arrow_obj) THEN NaN
    ELSE IF arrow_obj.kind # "arrow" THEN NaN
    ELSE Str(zfill(arrow_obj.ms \div 3600000, 2) \o <<":">>
             \o zfill((arrow_obj.ms % 3600000) \div 60000, 2) \o <<":">>
             \o zfill((arrow_obj.ms % 60000) \div 1000, 2))

----------------------------------------------------------------------------
(* Transform: parse_custom_format_to_timedelta *)

Whitespace == {" ", "\t", "\n"}

\* str.strip(): whitespace is removed from both ends only
RECURSIVE strip(_)
strip(s) ==
    IF s = <<>> THEN s
    ELSE IF s[1] \in Whitespace THEN strip(Tail(s))
    ELSE IF s[Len(s)] \in Whitespace THEN strip(SubSeq(s, 1, Len(s) - 1))
    ELSE s

LowerChar(c) ==
    CASE c = "N" -> "n" [] c = "A" -> "a" [] c = "T" -> "t" [] c = "O" -> "o"
      [] c = "E" -> "e" [] c = "X" -> "x" [] OTHER -> c

\* str.lower()
lower(s) == [i \in 1..Len(s) |-> LowerChar(s[i])]

RECURSIVE SumTo(_, _)
SumTo(widths, i) == IF i = 0 THEN 0 ELSE widths[i] + SumTo(widths, i - 1)

\* Match of r"(-?)(\d{w1}):(\d{w2}):...:(\d{wn})" at the start of s; `rest` is
\* what follows the match.
MatchAtStart(widths, s) ==
    LET signed == Len(s) > 0 /\ s[1] = "-"
        body   == IF signed THEN Tail(s) ELSE s
        n      == Len(widths)
        first(i) == SumTo(widths, i - 1) + i
        last(i)  == first(i) + widths[i] - 1
        total  == SumTo(widths, n) + n - 1
        ok == /\ Len(body) >= total
              /\ \A i \in 1..n :
                    /\ \A k \in first(i)..last(i) : body[k] \in Digit
                    /\ i < n => body[last(i) + 1] = ":"
    IN  [ok     |-> ok,
         sign   |-> IF signed THEN <<"-">> ELSE <<>>,
         groups |-> IF ok THEN [i \in 1..n |-> SubSeq(body, first(i), last(i))]
                    ELSE <<>>,
         rest   |-> IF ok THEN SubSeq(body, total + 1, Len(body)) ELSE <<>>]

\* faulty variant: re.match, which accepts a matching prefix
re_match(widths, s) == MatchAtStart(widths, s)

\* re.fullmatch: the pattern has to consume the whole string
re_fullmatch(widths, s) ==
    LET m == MatchAtStart(widths, s)
    IN  [m EXCEPT !.ok = m.ok /\ m.rest = <<>>]

\* faulty variant: the sign of the string is dropped
to_timedelta_unsigned(td_str) ==
    LET body == IF td_str[1] = "-" THEN Tail(td_str) ELSE td_str
        frac == IF Len(body) > 8 THEN int(SubSeq(body, 10, 12)) ELSE 0
    IN  Timedelta(int(SubSeq(body, 1, 2)) * 3600000 + int(SubSeq(body, 4, 5)) * 60000
                  + int(SubSeq(body, 7, 8)) * 1000 + frac)

\* faulty variant: a minutes or seconds field above 59 is rejected (ValueError)
to_timedelta_range_checked(td_str) ==
    LET neg  == td_str[1] = "-"
        body == IF neg THEN Tail(td_str) ELSE td_str
        h    == int(SubSeq(body, 1, 2))
        m    == int(SubSeq(body, 4, 5))
        s    == int(SubSeq(body, 7, 8))
        frac == IF Len(body) > 8 THEN int(SubSeq(body, 10, 12)) ELSE 0
        mag  == h * 3600000 + m * 60000 + s * 1000 + frac
    IN  IF m > 59 \/ s > 59 THEN NaT
        ELSE Timedelta(IF neg THEN 0 - mag ELSE mag)

\* pd.to_timedelta on "[-]HH:MM:SS" or "[-]HH:MM:SS.mmm": every field is
\* taken at face value (no field is range checked) and a leading "-" negates
\* the whole duration
to_timedelta(td_str) ==
    LET neg  == td_str[1] = "-"
        body == IF neg THEN Tail(td_str) ELSE td_str
        h    == int(SubSeq(body, 1, 2))
        m    == int(SubSeq(body, 4, 5))
        s    == int(SubSeq(body, 7, 8))
        frac == IF Len(body) > 8 THEN int(SubSeq(body, 10, 12)) ELSE 0
        mag  == h * 3600000 + m * 60000 + s * 1000 + frac
    IN  Timedelta(IF neg THEN 0 - mag ELSE mag)

HMSMS == <<2, 2, 2, 3>>
MSMS  == <<2, 2, 3>>
HMS   == <<2, 2, 2>>

\* faulty variant: the middle pattern is read as hours, minutes, seconds
msms_td_str_as_hms(m) ==
    m.sign \o m.groups[1] \o <<":">> \o m.groups[2] \o <<":">>
           \o SubSeq(m.groups[3], 2, 3)

\* the digit groups the middle pattern is read as: minutes, seconds, ms
msms_td_str(m) ==
    m.sign \o <<"0", "0", ":">> \o m.groups[1] \o <<":">> \o m.groups[2]
           \o <<".">> \o m.groups[3]

\* `pd.isna(time_val) or time_val == '' or time_val is None`
parser_missing(time_val) == isna(time_val) \/ time_val = Str(<<>>)

MissingTokens == {<<"n", "a", "n">>, <<"n", "a", "t">>}

parse_custom_format_to_timedelta(time_val) ==
    IF parser_missing(time_val) THEN NaT
    ELSE
      LET time_str    == strip(str(time_val))
          match_hmsms == re_fullmatch(HMSMS, time_str)
          match_msms  == re_fullmatch(MSMS, time_str)
          match_hms   == re_fullmatch(HMS, time_str)
      IN  IF lower(time_str) \in MissingTokens THEN NaT
          ELSE IF match_hmsms.ok THEN
              to_timedelta(match_hmsms.sign \o match_hmsms.groups[1] \o <<":">>
                           \o match_hmsms.groups[2] \o <<":">>
                           \o match_hmsms.groups[3] \o <<".">>
                           \o match_hmsms.groups[4])
          ELSE IF match_msms.ok THEN to_timedelta(msms_td_str(match_msms))
          ELSE IF match_hms.ok THEN
              to_timedelta(match_hms.sign \o match_hms.groups[1] \o <<":">>
                           \o match_hms.groups[2] \o <<":">> \o match_hms.groups[3])
          ELSE NaT

NoWarning == ""
NoMatchWarning == "did not match expected custom formats"

\* the logging.warning call that parse_custom_format_to_timedelta reaches:
\* only the fall-through after the three patterns logs one (pd.to_timedelta
\* raises no ValueError on a matched string)
parse_custom_format_warning(time_val) ==
    IF parser_missing(time_val) THEN NoWarning
    ELSE
      LET time_str == strip(str(time_val))
      IN  IF lower(time_str) \in MissingTokens THEN NoWarning
          ELSE IF \/ re_fullmatch(HMSMS, time_str).ok
                  \/ re_fullmatch(MSMS, time_str).ok
                  \/ re_fullmatch(HMS, time_str).ok
               THEN NoWarning
          ELSE NoMatchWarning

----------------------------------------------------------------------------
(* Inputs *)

\* magnitudes, in whole milliseconds, around which the numeric inputs lie:
\* zero, the ties 62.5 ms and 187.5 ms, 5.25 s, 59.9995 s, 61.5 s, 61.7 s,
\* 62.5 s, 89.567 s, 59:59.999, 1:01:30.123, 99:59.999 (minutes), 100 min,
\* 24 h, 99:59:59.5, 99:59:59.999 and 100 h
AnchorsMs == {0, 62, 187, 5250, 59999, 61500, 61700, 62500, 89567, 3599999,
              3690123, 5999999, 6000000, 86400000, 359999500, 359999999,
              360000000}

MagnitudesMs ==
    {a + k : a \in AnchorsMs, k \in (0 - MaxNeighbourMs)..MaxNeighbourMs} \cap Nat

\* microseconds below the millisecond: none, just under a tie, a tie, just over
SubMs == {0, 499, 500, 501}

NumericInputs ==
    {Num(neg, ms, us) : neg \in BOOLEAN, ms \in MagnitudesMs, us \in SubMs}

NonNumericInputs ==
    {Str(<<"a", "b", "c">>), Str(<<"1", ".", "5">>), Str(<<>>),
     Str(<<"0", "1", ":", "0", "2", ":", "0", "0", "3">>)}

SecondsInputs ==
    NumericInputs \cup NonNumericInputs \cup {NaN, None, NaT, Inf(FALSE), Inf(TRUE)}

ArrowInputs ==
    {None, NaN} \cup {Arrow(ms) : ms \in {0, 50525400, 86399999}}

GroupPool == {<<"7">>, <<"0", "1">>, <<"0", "2">>, <<"5", "9">>,
              <<"0", "0", "3">>, <<"1", "2", "3", "4">>}

\* ":".join(groups)
RECURSIVE Joined(_)
Joined(groups) ==
    IF Len(groups) = 1 THEN groups[1]
    ELSE Joined(SubSeq(groups, 1, Len(groups) - 1)) \o <<":">> \o groups[Len(groups)]

\* b with its last ":" replaced by "."
DotLast(b) ==
    LET colons == {i \in 1..Len(b) : b[i] = ":"}
    IN  IF colons = {} THEN b
        ELSE LET j == CHOOSE i \in colons : \A k \in colons : k <= i
             IN  [b EXCEPT ![j] = "."]

Decorations == {"plain", "minus", "minus2", "plus", "lead", "trail", "padded",
                "minus_space", "junk", "dot"}

Decorated(d, b) ==
    CASE d = "plain"       -> b
      [] d = "minus"       -> <<"-">> \o b
      [] d = "minus2"      -> <<"-", "-">> \o b
      [] d = "plus"        -> <<"+">> \o b
      [] d = "lead"        -> <<" ">> \o b
      [] d = "trail"       -> b \o <<" ">>
      [] d = "padded"      -> <<" ", "-">> \o b \o <<"\n">>
      [] d = "minus_space" -> <<"-", " ">> \o b
      [] d = "junk"        -> b \o <<"x">>
      [] d = "dot"         -> DotLast(b)

Tokens == {<<>>, <<" ">>, <<"n", "a", "n">>, <<"N", "a", "N">>,
           <<" ", "N", "a", "T", " ">>, <<"N", "o", "n", "e">>,
           <<"a", "b", "c">>}

\* what a cell of a CSV file holds besides digit groups
TokenCells == {NaN, None} \cup {Str(s) : s \in Tokens}

\* the na_values argument of read_csv
na_values ==
    {
     <<>>, <<"#", "N", "/", "A">>,
     <<"#", "N", "/", "A", " ", "N", "/", "A">>, <<"#", "N", "A">>,
     <<"-", "1", ".", "#", "I", "N", "D">>,
     <<"-", "1", ".", "#", "Q", "N", "A", "N">>, <<"-", "N", "a", "N">>,
     <<"-", "n", "a", "n">>, <<"1", ".", "#", "I", "N", "D">>,
     <<"1", ".", "#", "Q", "N", "A", "N">>, <<"<", "N", "A", ">">>,
     <<"N", "/", "A">>, <<"N", "U", "L", "L">>, <<"N", "a", "N">>,
     <<"N", "o", "n", "e">>, <<"n", "a", "n">>, <<"n", "u", "l", "l">>}

\* what keep_default_na=True adds to them
default_na_values == {<<"N", "A">>, <<"n", "/", "a">>}

\* faulty variant: every cell is read as the text it holds
read_csv_cell_verbatim(text) == Str(text)

\* a cell as read_csv(dtype=str) delivers it
read_csv_cell(text) ==
    IF text \in na_values \cup default_na_values THEN NaN ELSE Str(text)

\* the text df.to_csv writes for a cell of a decoded column
to_csv_text(v) == IF isna(v) THEN <<>> ELSE str(v)

----------------------------------------------------------------------------
(* Dashboard (src/streamlit_app.py): the two helpers that read and show    *)
(* durations                                                               *)

\* x.str_count(ch)
str_count(x, ch) == Cardinality({i \in 1..Len(x) : x[i] = ch})

\* x.rsplit(':', 1)[0] + '.' + x.rsplit(':', 1)[1]
rsplit_join_dot(x) ==
    LET i == CHOOSE k \in 1..Len(x) :
                 x[k] = ":" /\ \A j \in (k + 1)..Len(x) : x[j] # ":"
    IN  SubSeq(x, 1, i - 1) \o <<".">> \o SubSeq(x, i + 1, Len(x))

\* the lambda of safe_to_timedelta_seconds: only a string with three colons
\* gets its last colon replaced by a dot
last_colon_to_dot(x) == IF str_count(x, ":") = 3 THEN rsplit_join_dot(x) ELSE x

\* x.split(sep)
RECURSIVE split(_, _)
split(x, sep) ==
    IF str_count(x, sep) = 0 THEN <<x>>
    ELSE LET i == CHOOSE k \in 1..Len(x) :
                      x[k] = sep /\ \A j \in 1..(k - 1) : x[j] # sep
         IN  <<SubSeq(x, 1, i - 1)>> \o split(SubSeq(x, i + 1, Len(x)), sep)

isdigit(x) == x # <<>> /\ \A i \in 1..Len(x) : x[i] \in Digit

\* pd.to_timedelta(text, errors='coerce') on the texts a duration column of
\* the extractor can hold: "[-]h:m:s[.fraction]" with digit fields of any
\* width is hours, minutes and seconds at face value (no field is range
\* checked, a leading "-" negates the whole); "nan", "" and every other
\* text with a colon is NaT
to_timedelta_coerce(text) ==
    LET neg    == text # <<>> /\ text[1] = "-"
        body   == IF neg THEN Tail(text) ELSE text
        fields == split(body, ":")
        secs   == split(fields[3], ".")
        ok     == /\ Len(fields) = 3
                  /\ isdigit(fields[1])
                  /\ isdigit(fields[2])
                  /\ Len(secs) \in {1, 2}
                  /\ \A i \in 1..Len(secs) : isdigit(secs[i])
        frac   == IF Len(secs) = 2
                  THEN int(SubSeq(secs[2] \o <<"0", "0", "0">>, 1, 3)) ELSE 0
        mag    == int(fields[1]) * 3600000 + int(fields[2]) * 60000
                  + int(secs[1]) * 1000 + frac
    IN  IF ok THEN Timedelta(IF neg THEN 0 - mag ELSE mag) ELSE NaT

\* the largest leading field read as hours here: the integers of the model
\* checker are 32 bits wide, a Timedelta's are 64
MaxHoursField == 500

\* the leading field of the text is small enough to be read as hours
hours_fit(text) ==
    LET body  == IF text # <<>> /\ text[1] = "-" THEN Tail(text) ELSE text
        first == split(body, ":")[1]
    IN  isdigit(first) /\ Len(first) <= 3 /\ int(first) <= MaxHoursField

\* .dt.total_seconds()
total_seconds(t) ==
    IF t = NaT THEN NaN
    ELSE Num(t.ms < 0, IF t.ms < 0 THEN 0 - t.ms ELSE t.ms, 0)

\* safe_to_timedelta_seconds, one cell of the series
safe_to_timedelta_seconds(x) ==
    total_seconds(to_timedelta_coerce(last_colon_to_dot(str(x))))

\* f"{n:02}" for an integer n: the sign is part of the width
format_02(n) ==
    IF n >= 0 THEN zfill(n, 2)
    ELSE <<"-">> \o zfill(0 - n, 1)

\* format_seconds_to_hms_ms of a finite number: int() cuts the product
\* towards zero, // and % round down
format_seconds_to_hms_ms(v) ==
    IF isna(v) THEN None
    ELSE
      LET total_milliseconds == IF v.neg THEN 0 - v.ms ELSE v.ms
          hours == FloorDiv(total_milliseconds, 3600000)
          after_hours == total_milliseconds - hours * 3600000
          minutes == after_hours \div 60000
          after_minutes == after_hours % 60000
          seconds_part == after_minutes \div 1000
          milliseconds == after_minutes % 1000
      IN  Str(format_02(hours) \o <<":">> \o zfill(minutes, 2) \o <<":">>
              \o zfill(seconds_part, 2) \o <<":">> \o zfill(milliseconds, 3))

----------------------------------------------------------------------------
(* The pipeline: a writer fills a cell, the parser reads it.  The functions *)
(* are pure, so a run handles one value: Init draws it, one writer encodes  *)
(* it (or it is a cell found in a CSV file), then the parser is applied.    *)

Start(a) ==
    /\ pc = "idle"
    /\ variant = "none"
    /\ arg = a
    /\ cell = NoValue
    /\ td = NoValue
    /\ warning = NoWarning
    /\ second_pass = NoValue
    /\ seconds = NoValue
    /\ SessionUnused
    /\ TransformUnused
    /\ MainUnused
    /\ TelemetryUnused

Init ==
    \/ \E v \in SecondsInputs \cup ArrowInputs \cup TokenCells : Start(v)
    \/ \E n \in 1..MaxGroups : \E groups \in [1..n -> GroupPool] :
          \E d \in Decorations : Start(Str(Decorated(d, Joined(groups))))

Written(v, c) ==
    /\ pc = "idle"
    /\ variant' = v
    /\ cell' = c
    /\ pc' = "encoded"
    /\ UNCHANGED <<arg, td, warning, second_pass, seconds, session_vars, transform_vars,
                 main_vars, telemetry_vars>>

Format_mmssms ==
    arg \in SecondsInputs /\ Written("MMSSMS", format_seconds_to_mmssms(arg))

Format_hhmmss ==
    arg \in SecondsInputs /\ Written("HHMMSS", format_seconds_to_hhmmss(arg))

Format_hhmmssms ==
    arg \in SecondsInputs /\ Written("HHMMSSMS", format_seconds_to_hhmmssms(arg))

Format_arrow_hhmmssms ==
    arg \in ArrowInputs /\ Written("ARROW_HHMMSSMS", format_arrow_to_hhmmssms(arg))

Format_arrow_hhmmss ==
    arg \in ArrowInputs /\ Written("ARROW_HHMMSS", format_arrow_to_hhmmss(arg))

\* a cell that comes from a CSV file as it is found on disk
ReadCell ==
    arg.kind \in {"str", "nan", "none"} /\ Written("CSV", arg)

\* df[col].apply(parse_custom_format_to_timedelta), one cell
Parse ==
    /\ pc = "encoded"
    /\ td' = parse_custom_format_to_timedelta(cell)
    /\ warning' = parse_custom_format_warning(cell)
    /\ pc' = "parsed"
    /\ UNCHANGED <<variant, arg, cell, second_pass, seconds, session_vars, transform_vars,
                 main_vars, telemetry_vars>>

\* the encoder that wrote the cell, applied to the cell
encode_again(v, c) ==
    CASE v = "MMSSMS"   -> format_seconds_to_mmssms(c)
      [] v = "HHMMSS"   -> format_seconds_to_hhmmss(c)
      [] v = "HHMMSSMS" -> format_seconds_to_hhmmssms(c)

\* the numeric encoder is applied to the cell it has written
EncodeAgain ==
    /\ pc = "encoded"
    /\ variant \in {"MMSSMS", "HHMMSS", "HHMMSSMS"}
    /\ second_pass' = encode_again(variant, cell)
    /\ pc' = "encoded_again"
    /\ UNCHANGED <<variant, arg, cell, td, warning, seconds, session_vars,
                   transform_vars, main_vars, telemetry_vars>>

\* the decoded cell is written by to_csv, read by read_csv and decoded by a
\* second run of transform_csv_file
ParseAgain ==
    /\ pc = "parsed"
    /\ second_pass' =
          parse_custom_format_to_timedelta(read_csv_cell(to_csv_text(td)))
    /\ pc' = "parsed_again"
    /\ UNCHANGED <<variant, arg, cell, td, warning, seconds, session_vars,
                   transform_vars, main_vars, telemetry_vars>>

\* the dashboard's preprocessing reads the cell the encoder wrote
\* (df[f'{col}Seconds'] = safe_to_timedelta_seconds(df.get(col), col))
SafeSeconds ==
    /\ pc = "parsed"
    /\ variant \in {"MMSSMS", "HHMMSS", "HHMMSSMS"}
    /\ isna(cell) \/ (str_count(str(cell), ":") > 0 /\ hours_fit(str(cell)))
    /\ seconds' = safe_to_timedelta_seconds(cell)
    /\ pc' = "dashboard"
    /\ UNCHANGED <<variant, arg, cell, td, warning, second_pass, session_vars,
                   transform_vars, main_vars, telemetry_vars>>

\* the dashboard formats a number of seconds for display
Format_hms_ms ==
    /\ pc = "idle"
    /\ arg.kind = "num" \/ isna(arg)
    /\ variant' = "HMS_MS"
    /\ cell' = format_seconds_to_hms_ms(arg)
    /\ pc' = "shown"
    /\ UNCHANGED <<arg, td, warning, second_pass, seconds, session_vars,
                   transform_vars, main_vars, telemetry_vars>>

Next ==
    \/ SafeSeconds
    \/ Format_hms_ms
    \/ Format_mmssms
    \/ Format_hhmmss
    \/ Format_hhmmssms
    \/ Format_arrow_hhmmssms
    \/ Format_arrow_hhmmss
    \/ ReadCell
    \/ Parse
    \/ EncodeAgain
    \/ ParseAgain

Spec == Init /\ [][Next]_vars

----------------------------------------------------------------------------
(* Vocabulary of the properties.  Strings are read here by splitting on    *)
(* ":", independently of the position-based matcher of the parser.         *)

NumericVariants == {"MMSSMS", "HHMMSS", "HHMMSSMS"}
ArrowVariants == {"ARROW_HHMMSSMS", "ARROW_HHMMSS"}

Encoded == pc \in {"encoded", "parsed"}

\* the duration of a numeric input in signed whole milliseconds (us = 0)
SignedMs(v) == IF v.neg THEN 0 - v.ms ELSE v.ms

Magnitude(v) == [v EXCEPT !.neg = FALSE]

Encode(var, v) ==
    CASE var = "MMSSMS"   -> format_seconds_to_mmssms(v)
      [] var = "HHMMSS"   -> format_seconds_to_hhmmss(v)
      [] var = "HHMMSSMS" -> format_seconds_to_hhmmssms(v)

Unsigned(s) == IF s # <<>> /\ s[1] = "-" THEN Tail(s) ELSE s

RECURSIVE SplitColon(_)
SplitColon(s) ==
    LET colons == {i \in 1..Len(s) : s[i] = ":"}
    IN  IF colons = {} THEN <<s>>
        ELSE LET i == CHOOSE j \in colons : \A k \in colons : j <= k
             IN  <<SubSeq(s, 1, i - 1)>> \o SplitColon(SubSeq(s, i + 1, Len(s)))

AllDigits(g) == \A k \in 1..Len(g) : g[k] \in Digit

\* s is an optional "-" and then digit groups of exactly these widths
HasShape(s, widths) ==
    LET g == SplitColon(Unsigned(s))
    IN  /\ Len(g) = Len(widths)
        /\ \A i \in 1..Len(g) : Len(g[i]) = widths[i] /\ AllDigits(g[i])

\* the value of the colon-separated fields of s, weighted field by field
RECURSIVE Weighted(_, _)
Weighted(g, weights) ==
    IF g = <<>> THEN 0
    ELSE int(Head(g)) * Head(weights) + Weighted(Tail(g), Tail(weights))

Weights(var) ==
    CASE var = "MMSSMS"   -> <<60000, 1000, 1>>
      [] var = "HHMMSS"   -> <<3600000, 60000, 1000>>
      [] var = "HHMMSSMS" -> <<3600000, 60000, 1000, 1>>

\* the magnitude, in milliseconds, that the fields of an encoded string add up to
FieldsMs(var, s) == Weighted(SplitColon(Unsigned(s)), Weights(var))

Signed(s, mag) == IF s # <<>> /\ s[1] = "-" THEN 0 - mag ELSE mag

----------------------------------------------------------------------------
(* Round trips *)

\* C1: HHMMSSMS round trip. For every duration d of whole milliseconds with
\* -24h <= d <= +24h, parsing format_seconds_to_hhmmssms(d) gives d back
\* exactly, sign included.
C1_RoundTripHHMMSSMS ==
    (/\ pc = "parsed" /\ variant = "HHMMSSMS"
     /\ arg.kind = "num" /\ arg.us = 0 /\ arg.ms <= 86400000)
    => td = Timedelta(SignedMs(arg))

C1_Witness ==
    /\ pc = "parsed" /\ variant = "HHMMSSMS"
    /\ arg = Num(TRUE, 86400000, 0)
    /\ cell = Str(<<"-", "2", "4", ":", "0", "0", ":", "0", "0", ":", "0", "0", "0">>)
    /\ td = Timedelta(0 - 86400000)

\* C2: MMSSMS round trip. For every duration d of whole milliseconds with
\* |d| < 100 minutes, the minutes 60..99 included, parsing
\* format_seconds_to_mmssms(d) gives d back exactly.
C2_RoundTripMMSSMS ==
    (/\ pc = "parsed" /\ variant = "MMSSMS"
     /\ arg.kind = "num" /\ arg.us = 0 /\ arg.ms < 6000000)
    => td = Timedelta(SignedMs(arg))

C2_Witness ==
    /\ pc = "parsed" /\ variant = "MMSSMS"
    /\ arg = Num(FALSE, 5999999, 0)
    /\ cell = Str(<<"9", "9", ":", "5", "9", ":", "9", "9", "9">>)
    /\ td = Timedelta(5999999)

\* td is a whole number of seconds and no whole number of seconds is nearer
\* to the numeric input v
NearestSecond(v) ==
    /\ td.kind = "td"
    /\ td.ms % 1000 = 0
    /\ (td.ms < 0 => v.neg) /\ (td.ms > 0 => ~v.neg)
    /\ LET a == IF td.ms < 0 THEN 0 - td.ms ELSE td.ms
       IN  /\ a - 500 <= v.ms
           /\ v.ms < a + 500 \/ (v.ms = a + 500 /\ v.us = 0)

\* C3 as stated: for every duration d, parsing format_seconds_to_hhmmss(d)
\* gives a whole number of seconds, d rounded to the nearest second.
C3_TruncationEveryDuration ==
    (pc = "parsed" /\ variant = "HHMMSS" /\ arg.kind = "num")
    => NearestSecond(arg)

\* C3: truncation law. For every duration d with |d| < 99:59:59.5, so that
\* the rounded hours take two digits, parsing format_seconds_to_hhmmss(d)
\* gives a whole number of seconds, d rounded to the nearest second; 61.7 s
\* is written "00:01:02" and read back as exactly 62 s.
C3_TruncationLaw ==
    /\ (/\ pc = "parsed" /\ variant = "HHMMSS"
        /\ arg.kind = "num" /\ arg.ms < 359999500)
       => NearestSecond(arg)
    /\ (Encoded /\ variant = "HHMMSS" /\ arg = Num(FALSE, 61700, 0))
       => cell = Str(<<"0", "0", ":", "0", "1", ":", "0", "2">>)

C3_Witness ==
    /\ pc = "parsed" /\ variant = "HHMMSS"
    /\ arg = Num(FALSE, 61700, 0)
    /\ td = Timedelta(62000)

----------------------------------------------------------------------------
(* Sign, missing values, non-numeric input *)

NegativeNumber(v) == v.kind = "num" /\ v.neg /\ (v.ms > 0 \/ v.us > 0)

\* every negative duration is written as "-" and then the encoding of |d|
SignThenMagnitude ==
    (Encoded /\ variant \in NumericVariants /\ NegativeNumber(arg))
    => cell = Str(<<"-">> \o Encode(variant, Magnitude(arg)).s)

\* C4 as stated: ... and for every string s the parser accepts, parsing
\* "-" + s gives the negation of parsing s.
C4_SignEveryAcceptedString ==
    /\ SignThenMagnitude
    /\ (pc = "parsed" /\ cell.kind = "str" /\ td.kind = "td")
       => parse_custom_format_to_timedelta(Str(<<"-">> \o cell.s))
            = Timedelta(0 - td.ms)

\* C4: sign preservation. For every negative duration d and each of the
\* three numeric encoders, encode(d) is "-" followed by encode(|d|)
\* (-5.25 s as MMSSMS is "-00:05:250", read back as -5.25 s); and for every
\* string s the parser accepts that starts with a digit (no sign and no
\* white space in front of it), parsing "-" + s gives the negation of
\* parsing s.
C4_SignPreservation ==
    /\ SignThenMagnitude
    /\ (Encoded /\ variant = "MMSSMS" /\ arg = Num(TRUE, 5250, 0))
       => cell = Str(<<"-", "0", "0", ":", "0", "5", ":", "2", "5", "0">>)
    /\ (/\ pc = "parsed" /\ cell.kind = "str" /\ td.kind = "td"
        /\ cell.s[1] \in Digit)
       => parse_custom_format_to_timedelta(Str(<<"-">> \o cell.s))
            = Timedelta(0 - td.ms)

C4_Witness ==
    /\ pc = "parsed" /\ variant = "MMSSMS"
    /\ arg = Num(TRUE, 5250, 0)
    /\ td = Timedelta(0 - 5250)

\* C5: missing propagation. Each of the three numeric encoders and the two
\* arrow formatters returns the missing marker for a missing input (NaN,
\* None), and the parser returns NaT for an empty string or a missing value.
C5_MissingPropagation ==
    /\ (Encoded /\ variant \in NumericVariants \cup ArrowVariants /\ isna(arg))
       => cell = NaN
    /\ (pc = "parsed" /\ (isna(cell) \/ cell = Str(<<>>)))
       => td = NaT

C5_Witness ==
    /\ pc = "parsed" /\ variant = "HHMMSS"
    /\ arg = None /\ cell = NaN /\ td = NaT

\* C6 as stated: for an input that is not numeric (a string), each numeric
\* encoder returns the missing marker, never a string.
C6_NonNumericGivesMissing ==
    (Encoded /\ variant \in NumericVariants /\ arg.kind = "str")
    => cell = NaN

\* C6: for a string input each of the three numeric encoders returns that
\* string itself, unchanged, and not the missing marker.
C6_NonNumericReturnedAsIs ==
    (Encoded /\ variant \in NumericVariants /\ arg.kind = "str")
    => cell = Str(arg.s)

C6_Witness ==
    /\ Encoded /\ variant = "HHMMSSMS"
    /\ arg = Str(<<"a", "b", "c">>)
    /\ cell = Str(<<"a", "b", "c">>)

----------------------------------------------------------------------------
(* Rounding and the fields of an encoded string *)

\* C7: rounding policy. The millisecond encoders round seconds * 1000 half
\* away from zero: an input of magnitude k + 0.5 ms is written with
\* magnitude k + 1 ms, for even k as for odd k.
C7_RoundHalfAwayFromZero ==
    (/\ Encoded /\ variant \in {"MMSSMS", "HHMMSSMS"}
     /\ arg.kind = "num" /\ arg.us = 500)
    => FieldsMs(variant, cell.s) = arg.ms + 1

\* the fields of the encoded string s are in range for the variant
FieldsInRange(var, s) ==
    LET g == SplitColon(Unsigned(s))
        n == Len(g)
    IN  /\ n = Len(Weights(var))
        /\ \A i \in 1..n : AllDigits(g[i])
        /\ Len(g[1]) >= 2
        /\ var = "MMSSMS" =>
              /\ Len(g[2]) = 2 /\ int(g[2]) <= 59
              /\ Len(g[3]) = 3 /\ int(g[3]) <= 999
        /\ var = "HHMMSS" =>
              /\ Len(g[2]) = 2 /\ int(g[2]) <= 59
              /\ Len(g[3]) = 2 /\ int(g[3]) <= 59
        /\ var = "HHMMSSMS" =>
              /\ Len(g[2]) = 2 /\ int(g[2]) <= 59
              /\ Len(g[3]) = 2 /\ int(g[3]) <= 59
              /\ Len(g[4]) = 3 /\ int(g[4]) <= 999

\* m milliseconds is a nearest whole millisecond (HHMMSS: whole second) to
\* the magnitude of v
NearestTo(var, m, v) ==
    IF var = "HHMMSS"
    THEN /\ m % 1000 = 0
         /\ m - 500 <= v.ms
         /\ v.ms < m + 500 \/ (v.ms = m + 500 /\ v.us = 0)
    ELSE /\ v.us < 500 => m = v.ms
         /\ v.us > 500 => m = v.ms + 1
         /\ m \in {v.ms, v.ms + 1}

\* C8: component ranges with carry. For every numeric input the encoded
\* string has seconds in 00-59, milliseconds in 000-999 and, in the HH
\* variants, minutes in 00-59; rounding carries into the next field
\* (59.9995 s is "01:00:000") and the fields add up to the rounded magnitude.
C8_ComponentRanges ==
    /\ (Encoded /\ variant \in NumericVariants /\ arg.kind = "num")
       => /\ cell.kind = "str"
          /\ FieldsInRange(variant, cell.s)
          /\ NearestTo(variant, FieldsMs(variant, cell.s), arg)
    /\ (Encoded /\ variant = "MMSSMS" /\ arg = Num(FALSE, 59999, 500))
       => cell = Str(<<"0", "1", ":", "0", "0", ":", "0", "0", "0">>)

C8_Witness ==
    /\ Encoded /\ variant = "MMSSMS"
    /\ arg = Num(FALSE, 59999, 500)
    /\ cell = Str(<<"0", "1", ":", "0", "0", ":", "0", "0", "0">>)

----------------------------------------------------------------------------
(* The parser's patterns *)

\* C9: ambiguity resolution. A string of two digits, two digits and three
\* digits separated by colons is read as minutes:seconds:milliseconds
\* whatever produced the cell ("01:02:003" is 1 min 2.003 s), never as
\* hours:minutes:seconds.
C9_AmbiguityResolution ==
    (pc = "parsed" /\ cell.kind = "str" /\ HasShape(cell.s, <<2, 2, 3>>))
    => td = Timedelta(Signed(cell.s, FieldsMs("MMSSMS", cell.s)))

C9_Witness ==
    /\ pc = "parsed" /\ variant = "HHMMSS"
    /\ cell = Str(<<"0", "1", ":", "0", "2", ":", "0", "0", "3">>)
    /\ td = Timedelta(62003)

\* C10: whole-string structural matching. The trimmed string is read as
\* HHMMSSMS, else MMSSMS, else HHMMSS, each against the entire string; a
\* string that is wholly none of the three shapes is NaT, never a duration
\* taken from a prefix or a part of it.
C10_WholeStringMatching ==
    (pc = "parsed" /\ cell.kind = "str")
    => LET t == strip(cell.s)
       IN  IF HasShape(t, <<2, 2, 2, 3>>)
             THEN td = Timedelta(Signed(t, FieldsMs("HHMMSSMS", t)))
           ELSE IF HasShape(t, <<2, 2, 3>>)
             THEN td = Timedelta(Signed(t, FieldsMs("MMSSMS", t)))
           ELSE IF HasShape(t, <<2, 2, 2>>)
             THEN td = Timedelta(Signed(t, FieldsMs("HHMMSS", t)))
           ELSE td = NaT

C10_Witness ==
    /\ pc = "parsed" /\ variant = "CSV"
    /\ cell = Str(<<"0", "1", ":", "0", "2", ":", "0", "0", "3", "x">>)
    /\ td = NaT

\* C11: missing tokens are no parse failures. A white-space-only string, the
\* empty string and "nan"/"nat" in any letter case, with or without white
\* space around them, are decoded to NaT by the missing-token test and never
\* reach the "did not match expected custom formats" fall-through.
C11_MissingTokensNotParseFailures ==
    (/\ pc = "parsed" /\ cell.kind = "str"
     /\ lower(strip(cell.s)) \in MissingTokens \cup {<<>>})
    => td = NaT /\ warning = NoWarning


-----------------------------------------------------------------------------
(* Extractor: get_session_data, from the session-date lookup to one saved
   column.  A time of day is an Arrow of milliseconds since local midnight;
   the calendar date and daylight-saving changes are left out, offsets are
   exact to the microsecond. *)

MaxRows == 2

Timestamp(ms) == [kind |-> "timestamp", ms |-> ms]
Raises == [kind |-> "raises"]
Iso(zone, ms) == [kind |-> "iso", zone |-> zone, ms |-> ms]

robust_string_or_td_to_seconds(val) ==
    IF isna(val) THEN NaN
    ELSE IF val.kind = "td"
         THEN Num(val.ms < 0, IF val.ms < 0 THEN 0 - val.ms ELSE val.ms, 0)
    ELSE IF is_int_or_float(val) THEN val
    ELSE NaN                               \* unhandled type, with a warning

\* session.date.isoformat() under `if session.date`
utc_isoformat(date) == IF date = None THEN None ELSE Iso("utc", date.ms)

\* the try block around get_session_date: an Arrow is taken as it is, a
\* Timestamp goes through arrow.get, a text that is no date makes arrow.get
\* raise, and every exception leaves the start at None
local_start_from_event(raw) ==
    IF raw.kind = "raises" \/ raw = None THEN None
    ELSE IF raw.kind = "arrow" THEN raw
    ELSE IF raw.kind = "timestamp" THEN Arrow(raw.ms)
    ELSE None

arrow_isoformat(arrow_obj) ==
    IF arrow_obj = None THEN None ELSE Iso("local", arrow_obj.ms)

\* faulty variant: the ISO string of an unknown local start stays empty
iso_without_fallback(arrow_obj, local_iso, utc_iso) == local_iso

\* `if local_session_start_time_arrow_obj is None:` and the fallback of the
\* ISO string under it
iso_with_fallback(arrow_obj, local_iso, utc_iso) ==
    IF arrow_obj = None /\ utc_iso # None /\ local_iso = None THEN utc_iso
    ELSE local_iso

\* arrow_obj.shift(seconds=offset): raises on an offset that is no finite
\* number; the time of day wraps at midnight.  The Arrow of the model keeps
\* whole milliseconds, which is what both formats read of it.
shift(arrow_obj, offset) ==
    IF offset.kind # "num" THEN Raises
    ELSE LET whole == IF ~offset.neg THEN offset.ms
                      ELSE IF offset.us = 0 THEN 0 - offset.ms
                      ELSE 0 - offset.ms - 1
         IN  Arrow((arrow_obj.ms + whole) % 86400000)

\* the column lists of the results, laps and weather sections
duration_cols_mmssms == {"LapTime", "Sector1Time", "Sector2Time", "Sector3Time"}
absolute_local_time_hhmmssms == {"Time", "PitInTime", "PitOutTime"}
absolute_local_time_hhmmss ==
    {"Sector1SessionTime", "Sector2SessionTime", "Sector3SessionTime",
     "LapStartTime"}

\* the fields of event_info that hold an isoformat() text
event_info_isoformat ==
    {"EventDate", "SessionStartDateLocalISO", "SessionStartDateUTCISO"}

\* faulty variant: the Q1/Q2/Q3 branch is lost and they are treated as Time
encoding_of_q_as_time(file, col) ==
    IF file = "session_results.csv"
    THEN IF col \in {"Time", "Q1", "Q2", "Q3"} THEN "HHMMSSMS"
         ELSE IF col = "Interval" THEN "SECONDS" ELSE "PASS"
    ELSE IF file = "laps_data.csv"
    THEN IF col \in duration_cols_mmssms THEN "MMSSMS"
         ELSE IF col \in absolute_local_time_hhmmssms THEN "ARROW_HHMMSSMS"
         ELSE IF col \in absolute_local_time_hhmmss THEN "ARROW_HHMMSS"
         ELSE "PASS"
    ELSE IF file = "weather_data.csv" /\ col = "Time" THEN "ARROW_HHMMSSMS"
    ELSE IF file = "event_info.csv" /\ col \in event_info_isoformat THEN "ISO"
    ELSE IF file = "lap_telemetry_summary.csv"
            /\ col = "TelemetryLapStartTime_seconds" THEN "SECONDS"
    ELSE "PASS"

\* what get_session_data does to a column of a file
encoding_of(file, col) ==
    IF file = "session_results.csv"
    THEN IF col = "Time" THEN "HHMMSSMS"
         ELSE IF col \in {"Q1", "Q2", "Q3"} THEN "MMSSMS"
         ELSE IF col = "Interval" THEN "SECONDS"
         ELSE "PASS"
    ELSE IF file = "laps_data.csv"
    THEN IF col \in duration_cols_mmssms THEN "MMSSMS"
         ELSE IF col \in absolute_local_time_hhmmssms THEN "ARROW_HHMMSSMS"
         ELSE IF col \in absolute_local_time_hhmmss THEN "ARROW_HHMMSS"
         ELSE "PASS"
    ELSE IF file = "weather_data.csv" /\ col = "Time" THEN "ARROW_HHMMSSMS"
    ELSE IF file = "event_info.csv" /\ col \in event_info_isoformat THEN "ISO"
    ELSE IF file = "lap_telemetry_summary.csv"
            /\ col = "TelemetryLapStartTime_seconds" THEN "SECONDS"
    ELSE "PASS"

format_seconds(encoding, seconds_value) ==
    IF encoding = "HHMMSSMS" THEN format_seconds_to_hhmmssms(seconds_value)
    ELSE IF encoding = "MMSSMS" THEN format_seconds_to_mmssms(seconds_value)
    ELSE seconds_value

format_arrow(encoding, shifted_time) ==
    IF encoding = "ARROW_HHMMSSMS" THEN format_arrow_to_hhmmssms(shifted_time)
    ELSE format_arrow_to_hhmmss(shifted_time)

\* faulty variant: a row whose shift fails leaves no cell
shift_failed_dropped(times) == times

\* the except branch of the loop: abs_times.append(np.nan)
shift_failed(times) == Append(times, NaN)

\* faulty variant: the offset is formatted alone, the start is not added
abs_time_from_midnight(encoding, start, offset, times) ==
    IF isna(offset) THEN Append(times, NaN)
    ELSE LET shifted_time == shift(Arrow(0), offset)
         IN  IF shifted_time = Raises THEN shift_failed(times)
             ELSE Append(times, format_arrow(encoding, shifted_time))

\* the body of `for offset in seconds_offset_series:`
abs_time_appended(encoding, start, offset, times) ==
    IF isna(offset) THEN Append(times, NaN)
    ELSE LET shifted_time == shift(start, offset)
         IN  IF shifted_time = Raises THEN shift_failed(times)
             ELSE Append(times, format_arrow(encoding, shifted_time))

\* faulty variant: without a start the offsets are counted from midnight
column_from_midnight(encoding, seconds_offset_series) ==
    [i \in 1..Len(seconds_offset_series) |->
        IF seconds_offset_series[i].kind = "num"
        THEN format_arrow(encoding, shift(Arrow(0), seconds_offset_series[i]))
        ELSE NaN]

\* the else branch `laps_df[col_name] = np.nan`
column_without_start(encoding, seconds_offset_series) ==
    [i \in 1..Len(seconds_offset_series) |-> NaN]


-----------------------------------------------------------------------------
(* One session: the inputs and the steps of get_session_data *)

\* the variables of the codec pipeline while a session is extracted
CodecUnused ==
    /\ pc = "unused"
    /\ variant = "none"
    /\ arg = NoValue
    /\ cell = NoValue
    /\ td = NoValue
    /\ warning = NoWarning
    /\ second_pass = NoValue
    /\ seconds = NoValue

SessionDates == {None, Timestamp(43200000)}

RawDates ==
    {Raises, None, Arrow(50400000), Timestamp(86399000), Str(<<"x">>)}

RowValues ==
    {NaT, Timedelta(125400), Timedelta(0 - 1500), Num(FALSE, 7261, 999),
     Inf(FALSE), Str(<<"x">>)}

RowVectors == UNION {[1..n -> RowValues] : n \in 1..MaxRows}

SessionColumns ==
    ({"session_results.csv"} \X {"Time", "Q1", "Q2", "Q3", "Interval", "Position"})
    \cup ({"laps_data.csv"}
          \X (duration_cols_mmssms \cup absolute_local_time_hhmmssms
              \cup absolute_local_time_hhmmss \cup {"Compound"}))
    \cup ({"weather_data.csv"} \X {"Time", "AirTemp"})

InitSession ==
    /\ CodecUnused
    /\ s_pc = "lookup"
    /\ session_date \in SessionDates
    /\ raw_date_from_event \in RawDates
    /\ local_session_start_time_arrow_obj = None
    /\ local_session_start_time_iso = None
    /\ utc_session_start_time_iso = None
    /\ event_info = NoValue
    /\ \E fc \in SessionColumns : s_file = fc[1] /\ col_name = fc[2]
    /\ rows \in RowVectors
    /\ row_index = 0
    /\ abs_times = <<>>
    /\ written = NoValue
    /\ TransformUnused
    /\ MainUnused
    /\ TelemetryUnused

\* section 1, up to the fallback of the ISO string
LookupSessionDate ==
    /\ s_pc = "lookup"
    /\ LET start == local_start_from_event(raw_date_from_event)
           utc_iso == utc_isoformat(session_date)
       IN  /\ utc_session_start_time_iso' = utc_iso
           /\ local_session_start_time_arrow_obj' = start
           /\ local_session_start_time_iso' =
                  iso_with_fallback(start, arrow_isoformat(start), utc_iso)
    /\ s_pc' = "event_info"
    /\ UNCHANGED <<session_date, raw_date_from_event, event_info, s_file,
                   col_name, rows, row_index, abs_times, written, codec_vars, transform_vars,
                 main_vars, telemetry_vars>>

\* the event_info dict and its to_csv
SaveEventInfo ==
    /\ s_pc = "event_info"
    /\ event_info' =
           [SessionStartDateLocalISO |-> local_session_start_time_iso,
            SessionStartDateUTCISO |-> utc_session_start_time_iso]
    /\ s_pc' = "column"
    /\ UNCHANGED <<session_date, raw_date_from_event,
                   local_session_start_time_arrow_obj,
                   local_session_start_time_iso, utc_session_start_time_iso,
                   s_file, col_name, rows, row_index, abs_times, written,
                   codec_vars, transform_vars,
                 main_vars, telemetry_vars>>

Lookup == <<session_date, raw_date_from_event,
            local_session_start_time_arrow_obj, local_session_start_time_iso,
            utc_session_start_time_iso, event_info, s_file, col_name, rows>>

seconds_offset_series ==
    [i \in 1..Len(rows) |-> robust_string_or_td_to_seconds(rows[i])]

\* a duration column or Interval: two .apply calls and the save
FormatDurationColumn ==
    /\ s_pc = "column"
    /\ encoding_of(s_file, col_name) \in {"HHMMSSMS", "MMSSMS", "SECONDS"}
    /\ written' = [i \in 1..Len(rows) |->
                      format_seconds(encoding_of(s_file, col_name),
                                     seconds_offset_series[i])]
    /\ s_pc' = "saved"
    /\ UNCHANGED <<Lookup, row_index, abs_times, codec_vars, transform_vars,
                 main_vars, telemetry_vars>>

\* `if local_session_start_time_arrow_obj is not None: abs_times = []`
BeginAbsoluteColumn ==
    /\ s_pc = "column"
    /\ encoding_of(s_file, col_name) \in ArrowVariants
    /\ local_session_start_time_arrow_obj # None
    /\ abs_times' = <<>>
    /\ row_index' = 0
    /\ s_pc' = "loop"
    /\ UNCHANGED <<Lookup, written, codec_vars, transform_vars,
                 main_vars, telemetry_vars>>

\* one turn of the loop over the offsets
ShiftRow ==
    /\ s_pc = "loop"
    /\ row_index < Len(rows)
    /\ row_index' = row_index + 1
    /\ abs_times' = abs_time_appended(encoding_of(s_file, col_name),
                                      local_session_start_time_arrow_obj,
                                      seconds_offset_series[row_index + 1],
                                      abs_times)
    /\ UNCHANGED <<Lookup, s_pc, written, codec_vars, transform_vars,
                 main_vars, telemetry_vars>>

\* `laps_df[col_name] = abs_times` and the save
AssignAbsoluteColumn ==
    /\ s_pc = "loop"
    /\ row_index = Len(rows)
    /\ written' = abs_times
    /\ s_pc' = "saved"
    /\ UNCHANGED <<Lookup, row_index, abs_times, codec_vars, transform_vars,
                 main_vars, telemetry_vars>>

\* the else branch: no start, the whole column is np.nan
AssignNaNColumn ==
    /\ s_pc = "column"
    /\ encoding_of(s_file, col_name) \in ArrowVariants
    /\ local_session_start_time_arrow_obj = None
    /\ written' = column_without_start(encoding_of(s_file, col_name),
                                       seconds_offset_series)
    /\ s_pc' = "saved"
    /\ UNCHANGED <<Lookup, row_index, abs_times, codec_vars, transform_vars,
                 main_vars, telemetry_vars>>

\* a column no section names is saved as the provider delivered it
SaveUntouchedColumn ==
    /\ s_pc = "column"
    /\ encoding_of(s_file, col_name) = "PASS"
    /\ written' = rows
    /\ s_pc' = "saved"
    /\ UNCHANGED <<Lookup, row_index, abs_times, codec_vars, transform_vars,
                 main_vars, telemetry_vars>>

NextSession ==
    \/ LookupSessionDate
    \/ SaveEventInfo
    \/ FormatDurationColumn
    \/ BeginAbsoluteColumn
    \/ ShiftRow
    \/ AssignAbsoluteColumn
    \/ AssignNaNColumn
    \/ SaveUntouchedColumn

SpecSession == InitSession /\ [][NextSession]_vars


-----------------------------------------------------------------------------
(* Properties of one extracted session *)

Saved == s_pc = "saved"

AbsoluteHHMMSSMSColumns ==
    ({"laps_data.csv"} \X {"Time", "PitInTime", "PitOutTime"})
    \cup {<<"weather_data.csv", "Time">>}

AbsoluteHHMMSSColumns ==
    {"laps_data.csv"}
    \X {"Sector1SessionTime", "Sector2SessionTime", "Sector3SessionTime",
        "LapStartTime"}

AbsoluteTimeColumns == AbsoluteHHMMSSMSColumns \cup AbsoluteHHMMSSColumns

AbsoluteColumnSaved == Saved /\ <<s_file, col_name>> \in AbsoluteTimeColumns

\* the lookup gave a start instant / gave nothing or raised
LookupSucceeded == raw_date_from_event.kind \in {"arrow", "timestamp"}
LookupFailed == ~LookupSucceeded
UtcKnown == session_date # None

\* a row with an offset, and one whose offset can be added to an instant
OffsetPresent(v) == v.kind \in {"td", "num", "inf"}
OffsetFinite(v) == v.kind \in {"td", "num"}

\* the whole milliseconds of an offset, rounded down
FloorMs(v) ==
    IF v.kind = "td" THEN v.ms
    ELSE IF ~v.neg THEN v.ms
    ELSE IF v.us = 0 THEN 0 - v.ms
    ELSE 0 - v.ms - 1

TimeOfDay(startMs, v) == (startMs + FloorMs(v)) % 86400000

TwoDigits(n) == <<DigitChar(n \div 10), DigitChar(n % 10)>>
ThreeDigits(n) ==
    <<DigitChar(n \div 100), DigitChar((n \div 10) % 10), DigitChar(n % 10)>>

\* the time of day t, in milliseconds, as HH:MM:SS or HH:MM:SS:mmm
WallClock(t, withMs) ==
    Str(TwoDigits(t \div 3600000) \o <<":">>
        \o TwoDigits((t \div 60000) % 60) \o <<":">>
        \o TwoDigits((t \div 1000) % 60)
        \o (IF withMs THEN <<":">> \o ThreeDigits(t % 1000) ELSE <<>>))

\* the cell of a row when the times are counted from the instant startMs
ReconstructedCell(startMs, v) ==
    IF OffsetFinite(v)
    THEN WallClock(TimeOfDay(startMs, v),
                   <<s_file, col_name>> \in AbsoluteHHMMSSMSColumns)
    ELSE NaN

\* C12: when the lookup of the local session start gave nothing or raised,
\* every row of every absolute-time column of the session is written as
\* missing, also when the UTC session start is known; nothing is counted
\* from zero or from the UTC start.
C12_UnknownStartAllMissing ==
    (AbsoluteColumnSaved /\ LookupFailed)
    => /\ Len(written) = Len(rows)
       /\ \A i \in 1..Len(rows) : written[i] = NaN

C12_Witness ==
    /\ AbsoluteColumnSaved
    /\ LookupFailed
    /\ UtcKnown
    /\ rows[1] = Timedelta(125400)
    /\ written[1] = NaN

\* C13 as stated: when the lookup fails and the UTC start is known, the
\* absolute-time columns are computed from the UTC start.
C13_ColumnsFallBackToUtc ==
    (AbsoluteColumnSaved /\ LookupFailed /\ UtcKnown)
    => \A i \in 1..Len(rows) :
          written[i] = ReconstructedCell(session_date.ms, rows[i])

\* C13: the rows are shifted from the local start the lookup gave; when the
\* lookup fails and the UTC start is known, only the local ISO string of
\* event_info falls back to the UTC one, no start instant is set and the
\* absolute-time columns are written as missing.
C13_OnlyIsoStringFallsBack ==
    /\ (AbsoluteColumnSaved /\ LookupSucceeded)
       => \A i \in 1..Len(rows) :
             written[i] = ReconstructedCell(raw_date_from_event.ms, rows[i])
    /\ (Saved /\ LookupFailed /\ UtcKnown)
       => /\ local_session_start_time_arrow_obj = None
          /\ event_info.SessionStartDateLocalISO = Iso("utc", session_date.ms)
          /\ event_info.SessionStartDateUTCISO = Iso("utc", session_date.ms)
          /\ <<s_file, col_name>> \in AbsoluteTimeColumns
             => \A i \in 1..Len(rows) : written[i] = NaN

C13_Witness ==
    /\ AbsoluteColumnSaved
    /\ raw_date_from_event = Raises
    /\ UtcKnown
    /\ event_info.SessionStartDateLocalISO = Iso("utc", 43200000)
    /\ rows = <<Timedelta(125400)>>
    /\ written = <<NaN>>

\* C14: with a known local start S, the cell of a row with offset o is the
\* time of day of S + o on S's own clock, unsigned and zero-padded, cut to
\* the millisecond as HH:MM:SS:mmm or to the second as HH:MM:SS; a start of
\* 14:00:00 and an offset of 125.4 s give "14:02:05:400".
C14_AbsoluteTimeReconstruction ==
    (AbsoluteColumnSaved /\ LookupSucceeded)
    => /\ \A i \in 1..Len(rows) :
             OffsetFinite(rows[i])
             => written[i] = WallClock(TimeOfDay(raw_date_from_event.ms, rows[i]),
                                       <<s_file, col_name>> \in AbsoluteHHMMSSMSColumns)
       /\ \A i \in 1..Len(rows) :
             (/\ raw_date_from_event.ms = 50400000
              /\ rows[i] = Timedelta(125400)
              /\ <<s_file, col_name>> \in AbsoluteHHMMSSMSColumns)
             => written[i] = Str(<<"1", "4", ":", "0", "2", ":", "0", "5", ":",
                                   "4", "0", "0">>)

C14_Witness ==
    /\ AbsoluteColumnSaved
    /\ raw_date_from_event = Arrow(50400000)
    /\ <<s_file, col_name>> = <<"laps_data.csv", "PitInTime">>
    /\ rows = <<Timedelta(125400)>>
    /\ written = <<Str(<<"1", "4", ":", "0", "2", ":", "0", "5", ":",
                         "4", "0", "0">>)>>

\* C15: with a known start, the rebuilt column has one cell per row in the
\* order of the rows; a cell is missing exactly when its own offset is
\* missing or its own shift fails, and it is a function of its own row only,
\* during the loop as in the saved column.
C15_PerRowIndependence ==
    /\ s_pc = "loop"
       => /\ Len(abs_times) = row_index
          /\ \A i \in 1..row_index :
                abs_times[i] = ReconstructedCell(raw_date_from_event.ms, rows[i])
    /\ (AbsoluteColumnSaved /\ LookupSucceeded)
       => /\ Len(written) = Len(rows)
          /\ \A i \in 1..Len(rows) :
                /\ written[i] = ReconstructedCell(raw_date_from_event.ms, rows[i])
                /\ written[i] = NaN <=> ~OffsetFinite(rows[i])

C15_Witness ==
    /\ AbsoluteColumnSaved
    /\ LookupSucceeded
    /\ rows = <<Inf(FALSE), Timedelta(125400)>>
    /\ written[1] = NaN
    /\ written[2] # NaN


\* the digit groups of each written variant
ShapeOf(v) ==
    IF v = "MMSSMS" THEN <<2, 2, 3>>
    ELSE IF v = "HHMMSSMS" THEN <<2, 2, 2, 3>>
    ELSE <<2, 2, 2>>

\* the variant each time column is to be written with
AssignedVariant(file, col) ==
    IF file = "laps_data.csv"
       /\ col \in {"LapTime", "Sector1Time", "Sector2Time", "Sector3Time"}
    THEN "MMSSMS"
    ELSE IF file = "session_results.csv" /\ col = "Time" THEN "HHMMSSMS"
    ELSE IF file = "session_results.csv" /\ col \in {"Q1", "Q2", "Q3"}
    THEN "MMSSMS"
    ELSE IF <<file, col>> \in AbsoluteHHMMSSColumns THEN "HHMMSS"
    ELSE IF file = "laps_data.csv" /\ col \in {"Time", "PitInTime", "PitOutTime"}
    THEN "HHMMSSMS"
    ELSE "none"

\* C17: a column is never written in a variant other than its own: LapTime
\* and the sector times MM:SS:mmm, the results' Time HH:MM:SS:mmm, Q1..Q3
\* MM:SS:mmm, the sector session times and LapStartTime HH:MM:SS, the laps'
\* Time, PitInTime and PitOutTime HH:MM:SS:mmm; every cell of such a column
\* that is not missing has the digit groups of the column's variant.
C17_FixedFieldEncoding ==
    (Saved /\ AssignedVariant(s_file, col_name) # "none")
    => /\ Len(written) = Len(rows)
       /\ \A i \in 1..Len(rows) :
             \/ written[i] = NaN
             \/ /\ written[i].kind = "str"
                /\ HasShape(written[i].s,
                            ShapeOf(AssignedVariant(s_file, col_name)))

C17_Witness ==
    /\ Saved
    /\ <<s_file, col_name>> = <<"session_results.csv", "Q2">>
    /\ rows = <<Timedelta(125400)>>
    /\ written = <<Str(<<"0", "2", ":", "0", "5", ":", "4", "0", "0">>)>>


-----------------------------------------------------------------------------
(* Transform: transform_csv_file.  A table is a function from column names
   to columns, a column a sequence of cells; a cell of a file is a text. *)

\* faulty variant: Q3 is not registered for the results
STRING_COLUMNS_TO_TIMEDELTA_without_Q3 ==
    ("session_results.csv" :> {"Time", "Q1", "Q2"})
    @@ ("laps_data.csv" :>
           {"LapTime", "Sector1Time", "Sector2Time", "Sector3Time",
            "Time", "PitInTime", "PitOutTime",
            "Sector1SessionTime", "Sector2SessionTime", "Sector3SessionTime",
            "LapStartTime"})
    @@ ("weather_data.csv" :> {"Time"})

STRING_COLUMNS_TO_TIMEDELTA ==
    ("session_results.csv" :> {"Time", "Q1", "Q2", "Q3"})
    @@ ("laps_data.csv" :>
           {"LapTime", "Sector1Time", "Sector2Time", "Sector3Time",
            "Time", "PitInTime", "PitOutTime",
            "Sector1SessionTime", "Sector2SessionTime", "Sector3SessionTime",
            "LapStartTime"})
    @@ ("weather_data.csv" :> {"Time"})

ISO_STRING_COLUMNS_TO_DATETIME ==
    "event_info.csv" :>
        {"EventDate", "SessionStartDateLocalISO", "SessionStartDateUTCISO"}

NUMERIC_SECONDS_COLUMNS_TO_TIMEDELTA ==
    ("session_results.csv" :> {"Interval"})
    @@ ("lap_telemetry_summary.csv" :> {"TelemetryLapStartTime_seconds"})

\* faulty variant: every registered column counts, present or not
cols_registered(TABLE, file_name, columns) ==
    IF file_name \in DOMAIN TABLE THEN TABLE[file_name] ELSE {}

\* `if file_name in TABLE: for col in TABLE[file_name]: if col in df.columns`
cols_present(TABLE, file_name, columns) ==
    IF file_name \in DOMAIN TABLE THEN TABLE[file_name] \cap columns ELSE {}

Datetime(text) == [kind |-> "datetime", text |-> text]

\* the texts pd.to_datetime reads in the model: those that begin with a
\* yyyy-mm-dd date; every other text is coerced to NaT
IsoDate(s) ==
    /\ Len(s) >= 10
    /\ \A k \in {1, 2, 3, 4, 6, 7, 9, 10} : s[k] \in Digit
    /\ s[5] = "-" /\ s[8] = "-"

to_datetime(v) ==
    IF isna(v) THEN NaT
    ELSE IF v.kind = "str" /\ IsoDate(v.s) THEN Datetime(v.s)
    ELSE NaT

\* pd.to_numeric(errors='coerce') of a cell: an optional sign, digits and
\* up to three decimals are read as a number, any other text is NaN
to_numeric(v) ==
    IF isna(v) \/ v.kind # "str" THEN NaN
    ELSE LET neg == v.s # <<>> /\ v.s[1] = "-"
             body == IF neg THEN Tail(v.s) ELSE v.s
             dots == {k \in 1..Len(body) : body[k] = "."}
             dot == IF dots = {} THEN Len(body) + 1
                    ELSE CHOOSE k \in dots : TRUE
             whole == SubSeq(body, 1, dot - 1)
             frac == SubSeq(body, dot + 1, Len(body))
         IN  IF /\ Cardinality(dots) <= 1
                /\ Len(whole) + Len(frac) > 0
                /\ Len(frac) <= 3
                /\ AllDigits(whole) /\ AllDigits(frac)
             THEN Num(neg,
                      (IF whole = <<>> THEN 0 ELSE int(whole)) * 1000
                      + (IF frac = <<>> THEN 0
                         ELSE int(frac \o Zeros(3 - Len(frac)))),
                      0)
             ELSE NaN

\* pd.to_timedelta(numeric_series, unit='s', errors='coerce')
seconds_to_timedelta(n) ==
    IF n.kind # "num" THEN NaT
    ELSE Timedelta(IF n.neg THEN 0 - n.ms ELSE n.ms)

numeric_seconds_cell(v) == seconds_to_timedelta(to_numeric(v))

\* the three passes over the columns of the table, cell by cell: a column
\* is transformed by a pass when the pass's table names it for the file
string_pass(file_name, c, v) ==
    IF c \in cols_present(STRING_COLUMNS_TO_TIMEDELTA, file_name, {c})
    THEN parse_custom_format_to_timedelta(v) ELSE v

datetime_pass(file_name, c, v) ==
    IF c \in cols_present(ISO_STRING_COLUMNS_TO_DATETIME, file_name, {c})
    THEN to_datetime(v) ELSE v

numeric_pass(file_name, c, v) ==
    IF c \in cols_present(NUMERIC_SECONDS_COLUMNS_TO_TIMEDELTA, file_name, {c})
    THEN numeric_seconds_cell(v) ELSE v

\* df.to_csv: a missing value is written as an empty cell; the text of a
\* Timedelta or a datetime is not spelled out here
to_csv_cell(v) == IF isna(v) THEN Str(<<>>) ELSE v

Report(outcome, count, out) ==
    [outcome |-> outcome, transformed_cols_count |-> count, out |-> out]

\* `if transformed_cols_count > 0:`
save_wanted(count) == count > 0

\* what read_csv raises on a file that is gone, has no data or cannot be
\* decoded, and what os.makedirs raises under an output tree it may not write
raised_by(cond) ==
    IF cond = "missing" THEN "FileNotFoundError"
    ELSE IF cond = "empty" THEN "EmptyDataError"
    ELSE IF cond = "unreadable" THEN "UnicodeDecodeError"
    ELSE "PermissionError"

\* faulty variant: no `except Exception`, any other exception leaves the call
except_clauses_without_catch_all(exception) ==
    IF exception = "FileNotFoundError" THEN "not_found"
    ELSE IF exception = "EmptyDataError" THEN "empty"
    ELSE "raised"

\* the three except clauses of transform_csv_file
except_clauses(exception) ==
    IF exception = "FileNotFoundError" THEN "not_found"
    ELSE IF exception = "EmptyDataError" THEN "empty"
    ELSE "error"

\* the whole function: how it ends, the count it logs and the file it saves
transform_csv_file(file) ==
    IF file.cond \in {"missing", "empty", "unreadable"}
    THEN Report(except_clauses(raised_by(file.cond)), 0, NoValue)
    ELSE LET file_name == file.name
             columns == DOMAIN file.table
             transformed_cols_count ==
                 Cardinality(cols_present(STRING_COLUMNS_TO_TIMEDELTA,
                                          file_name, columns))
                 + Cardinality(cols_present(ISO_STRING_COLUMNS_TO_DATETIME,
                                            file_name, columns))
                 + Cardinality(cols_present(NUMERIC_SECONDS_COLUMNS_TO_TIMEDELTA,
                                            file_name, columns))
         IN  IF ~save_wanted(transformed_cols_count)
             THEN Report("skipped_save", transformed_cols_count, NoValue)
             ELSE IF file.cond = "unwritable"
             THEN Report(except_clauses(raised_by(file.cond)),
                         transformed_cols_count, NoValue)
             ELSE Report("saved", transformed_cols_count,
                         [c \in columns |->
                             [i \in 1..Len(file.table[c]) |->
                                 to_csv_cell(
                                     numeric_pass(file_name, c,
                                         datetime_pass(file_name, c,
                                             string_pass(file_name, c,
                                                 read_csv_cell(file.table[c][i])))))]])

-----------------------------------------------------------------------------
(* One run of main_transform: the files under the input directory *)

MaxFiles == 2

File(name, cond, table) == [name |-> name, cond |-> cond, table |-> table]

ResultsFile ==
    File("session_results.csv", "ok",
         ("Time" :> <<<<"0", "0", ":", "0", "2", ":", "0", "5", ":", "4", "0", "0">>>>)
         @@ ("Q1" :> <<<<"0", "2", ":", "0", "5", ":", "4", "0", "0">>>>)
         @@ ("Q3" :> <<<<>>>>)
         @@ ("Interval" :> <<<<"5", ".", "2", "5">>>>)
         @@ ("Position" :> <<<<"N", "o", "n", "e">>>>))

ResultsFileNoTimes ==
    File("session_results.csv", "ok",
         ("Position" :> <<<<"1">>>>)
         @@ ("Abbreviation" :> <<<<"N", "/", "A">>>>))

LapsFile ==
    File("laps_data.csv", "ok",
         ("LapTime" :> <<<<"0", "1", ":", "2", "9", ":", "5", "6", "7">>>>)
         @@ ("Time" :> <<<<"1", "4", ":", "0", "2", ":", "0", "5", ":", "4", "0", "0">>>>)
         @@ ("LapStartTime" :> <<<<"1", "4", ":", "0", "2", ":", "0", "5">>>>)
         @@ ("Compound" :> <<<<"N", "U", "L", "L">>>>))

LapsFileOneTime ==
    File("laps_data.csv", "ok",
         ("Sector1Time" :> <<<<"b", "a", "d">>>>)
         @@ ("Compound" :> <<<<"S", "O", "F", "T">>>>))

WeatherFile ==
    File("weather_data.csv", "ok",
         ("Time" :> <<<<"1", "4", ":", "0", "2", ":", "0", "5", ":", "4", "0", "0">>>>)
         @@ ("AirTemp" :> <<<<"n", "a", "n">>>>))

StintsFile ==
    File("tyre_stints_summary.csv", "ok",
         ("Driver" :> <<<<"V", "E", "R">>>>)
         @@ ("Compound" :> <<<<"N", "o", "n", "e">>>>))

EventInfoFile ==
    File("event_info.csv", "ok",
         ("EventDate" :> <<<<"2", "0", "2", "4", "-", "0", "5", "-", "2", "6">>>>)
         @@ ("SessionStartDateLocalISO" :> <<<<>>>>)
         @@ ("EventName" :> <<<<"N", "A">>>>))

TelemetryFile ==
    File("lap_telemetry_summary.csv", "ok",
         ("TelemetryLapStartTime_seconds" :> <<<<"1", "2", "5", ".", "4">>>>)
         @@ ("AvgSpeed" :> <<<<"2", "0", "1", ".", "5">>>>))

\* files that cannot be read or saved, and a file that is no CSV
FileGone == File("laps_data.csv", "missing", <<>>)
FileEmpty == File("weather_data.csv", "empty", <<>>)
FileUnreadable == File("session_results.csv", "unreadable", <<>>)
FileUnwritable == [WeatherFile EXCEPT !.cond = "unwritable"]
FileNoCsv == File("notes.txt", "ok", <<>>)

FilePool ==
    {ResultsFile, ResultsFileNoTimes, LapsFile, LapsFileOneTime, WeatherFile,
     StintsFile, EventInfoFile, TelemetryFile, FileGone, FileEmpty,
     FileUnreadable, FileUnwritable, FileNoCsv}

\* transform_csv_file on each file of the pool, worked out once
transformed == [file \in FilePool |-> transform_csv_file(file)]

\* file.endswith('.csv'), on the names of the pool
endswith_csv(name) == name # "notes.txt"

InitTransform ==
    /\ CodecUnused
    /\ SessionUnused
    /\ MainUnused
    /\ TelemetryUnused
    /\ t_pc = "start"
    /\ input_dir_exists \in BOOLEAN
    /\ \E n \in 0..MaxFiles : \E fs \in [1..n -> FilePool] : files = fs
    /\ input_dir_exists \/ files = <<>>
    /\ file_index = 0
    /\ outputs = [i \in 1..Len(files) |-> NoValue]
    /\ reports = <<>>

\* `if not os.path.exists(input_base_dir): ... return`
ExitNoInputDir ==
    /\ t_pc = "start"
    /\ ~input_dir_exists
    /\ t_pc' = "exited"
    /\ UNCHANGED <<input_dir_exists, files, file_index, outputs, reports,
                   codec_vars, session_vars,
                 main_vars, telemetry_vars>>

BeginWalk ==
    /\ t_pc = "start"
    /\ input_dir_exists
    /\ t_pc' = "walk"
    /\ UNCHANGED <<input_dir_exists, files, file_index, outputs, reports,
                   codec_vars, session_vars,
                 main_vars, telemetry_vars>>

\* a file the `.csv` test turns away
SkipOtherFile ==
    /\ t_pc = "walk"
    /\ file_index < Len(files)
    /\ ~endswith_csv(files[file_index + 1].name)
    /\ file_index' = file_index + 1
    /\ UNCHANGED <<t_pc, input_dir_exists, files, outputs, reports,
                   codec_vars, session_vars,
                 main_vars, telemetry_vars>>

\* one call transform_csv_file(input_file_path, output_file_path); an
\* exception that left the call would leave main_transform as well
TransformFile ==
    /\ t_pc = "walk"
    /\ file_index < Len(files)
    /\ endswith_csv(files[file_index + 1].name)
    /\ LET report == transformed[files[file_index + 1]]
       IN  /\ reports' = Append(reports,
                                [file |-> file_index + 1,
                                 outcome |-> report.outcome,
                                 transformed_cols_count |->
                                     report.transformed_cols_count])
           /\ outputs' = IF report.outcome = "saved"
                         THEN [outputs EXCEPT ![file_index + 1] = report.out]
                         ELSE outputs
           /\ t_pc' = IF report.outcome = "raised" THEN "crashed" ELSE t_pc
    /\ file_index' = file_index + 1
    /\ UNCHANGED <<input_dir_exists, files, codec_vars, session_vars,
                 main_vars, telemetry_vars>>

\* the walk is over: "--- Data transformation process finished ---"
FinishTransform ==
    /\ t_pc = "walk"
    /\ file_index = Len(files)
    /\ t_pc' = "finished"
    /\ UNCHANGED <<input_dir_exists, files, file_index, outputs, reports,
                   codec_vars, session_vars,
                 main_vars, telemetry_vars>>

NextTransform ==
    \/ ExitNoInputDir
    \/ BeginWalk
    \/ SkipOtherFile
    \/ TransformFile
    \/ FinishTransform

SpecTransform == InitTransform /\ [][NextTransform]_vars

\* the loop of main_transform makes no blocking call: each step is taken
SpecTransformFair == SpecTransform /\ WF_vars(NextTransform)


-----------------------------------------------------------------------------
(* Properties of the two routing tables and of one transform run *)

\* the decode path a column is registered for on the read side
ReadRule(file, col) ==
    IF file \in DOMAIN STRING_COLUMNS_TO_TIMEDELTA
       /\ col \in STRING_COLUMNS_TO_TIMEDELTA[file] THEN "STRING"
    ELSE IF file \in DOMAIN ISO_STRING_COLUMNS_TO_DATETIME
            /\ col \in ISO_STRING_COLUMNS_TO_DATETIME[file] THEN "ISO"
    ELSE IF file \in DOMAIN NUMERIC_SECONDS_COLUMNS_TO_TIMEDELTA
            /\ col \in NUMERIC_SECONDS_COLUMNS_TO_TIMEDELTA[file] THEN "NUMERIC"
    ELSE "none"

Registrations(TABLE) == UNION {{f} \X TABLE[f] : f \in DOMAIN TABLE}

\* the columns written by the extractor or named on the read side
AllColumns ==
    SessionColumns
    \cup ({"event_info.csv"}
          \X {"EventDate", "SessionStartDateLocalISO", "SessionStartDateUTCISO",
              "EventName"})
    \cup ({"lap_telemetry_summary.csv"}
          \X {"TelemetryLapStartTime_seconds", "AvgSpeed"})
    \cup ({"tyre_stints_summary.csv"} \X {"Driver", "Compound"})
    \cup Registrations(STRING_COLUMNS_TO_TIMEDELTA)
    \cup Registrations(ISO_STRING_COLUMNS_TO_DATETIME)
    \cup Registrations(NUMERIC_SECONDS_COLUMNS_TO_TIMEDELTA)

DecodePathOf(encoding) ==
    IF encoding \in {"MMSSMS", "HHMMSSMS", "ARROW_HHMMSSMS", "ARROW_HHMMSS"}
    THEN "STRING"
    ELSE IF encoding = "ISO" THEN "ISO"
    ELSE IF encoding = "SECONDS" THEN "NUMERIC"
    ELSE "none"

\* C16: the write side and the read side agree column by column: a column
\* written as a duration string is registered for the string decoder of its
\* file, one written as ISO text for the datetime decoder, one written as
\* plain seconds for the numeric decoder, and no registration names a column
\* written in another way; a cell written to a string-registered column is a
\* text the string decoder reads.
C16_RoutingTablesConsistent ==
    /\ \A fc \in AllColumns :
          ReadRule(fc[1], fc[2]) = DecodePathOf(encoding_of(fc[1], fc[2]))
    /\ (Saved /\ ReadRule(s_file, col_name) = "STRING")
       => \A i \in 1..Len(written) :
             written[i].kind = "str"
             => parse_custom_format_to_timedelta(written[i]) # NaT

C16_Witness ==
    /\ Saved
    /\ <<s_file, col_name>> = <<"session_results.csv", "Q3">>
    /\ rows = <<Timedelta(125400)>>
    /\ ReadRule(s_file, col_name) = "STRING"
    /\ parse_custom_format_to_timedelta(written[1]) = Timedelta(125400)

\* a file of the walk that was read, transformed and saved
SavedFile(i) == i \in 1..file_index /\ outputs[i] # NoValue

Unregistered(file, col) == ReadRule(file, col) = "none"

\* C18 as stated: every cell of an unregistered column of a saved file has
\* the text of the input cell, whatever that text is.
C18_UnregisteredCellsVerbatim ==
    \A i \in 1..Len(files) :
        SavedFile(i)
        => \A c \in DOMAIN files[i].table :
              Unregistered(files[i].name, c)
              => \A r \in 1..Len(files[i].table[c]) :
                    outputs[i][c][r] = Str(files[i].table[c][r])

\* C18: every cell of an unregistered column of a saved file has the text
\* of the input cell, except that a cell holding one of read_csv's tokens
\* for a missing value ("None", "NULL", "N/A", "nan", "NA", ...) is saved as
\* an empty cell; no column is added or dropped.
C18_UnregisteredPassThrough ==
    \A i \in 1..Len(files) :
        SavedFile(i)
        => /\ DOMAIN outputs[i] = DOMAIN files[i].table
           /\ \A c \in DOMAIN files[i].table :
                 Unregistered(files[i].name, c)
                 => /\ Len(outputs[i][c]) = Len(files[i].table[c])
                    /\ \A r \in 1..Len(files[i].table[c]) :
                          outputs[i][c][r] =
                              IF files[i].table[c][r]
                                 \in na_values \cup default_na_values
                              THEN Str(<<>>)
                              ELSE Str(files[i].table[c][r])

C18_Witness ==
    /\ Len(files) >= 1
    /\ files[1] = LapsFile
    /\ SavedFile(1)
    /\ outputs[1]["Compound"] = <<Str(<<>>)>>
    /\ files[1].table["Compound"] = <<<<"N", "U", "L", "L">>>>

\* a CSV file of the walk that can be read and holds data
Readable(i) == endswith_csv(files[i].name) /\ files[i].cond = "ok"

\* C19: an input CSV that is readable and not empty is saved to the output
\* tree, also when some or all of the columns registered for it are absent
\* or none is registered at all.
C19_AbsentColumnsStillWritten ==
    \A i \in 1..file_index : Readable(i) => outputs[i] # NoValue

\* the CSV files of the first n files of the walk, in walk order
RECURSIVE CsvFiles(_)
CsvFiles(n) ==
    IF n = 0 THEN <<>>
    ELSE IF endswith_csv(files[n].name) THEN Append(CsvFiles(n - 1), n)
    ELSE CsvFiles(n - 1)

FileFails(i) ==
    endswith_csv(files[i].name)
    /\ files[i].cond \in {"missing", "empty", "unreadable", "unwritable"}

\* every call so far was for a .csv file, in walk order and once per file,
\* a failing file left no output, and no exception left a call
EveryFileHandled ==
    /\ t_pc # "crashed"
    /\ t_pc \in {"walk", "finished"}
       => /\ [k \in 1..Len(reports) |-> reports[k].file] = CsvFiles(file_index)
          /\ \A k \in 1..Len(reports) :
                FileFails(reports[k].file)
                => /\ outputs[reports[k].file] = NoValue
                   /\ reports[k].outcome \in {"not_found", "empty", "error"}
    /\ t_pc = "finished" => file_index = Len(files)

\* C20: transform_csv_file is called once for each .csv file of the input
\* directory, in walk order; a file that is missing, empty, unreadable or
\* raises while it is processed leaves no output and no exception leaves
\* the call, the files after it are still processed, and a run over an
\* existing input directory always reaches its finished state.
C20_FailuresNeverHaltBatch ==
    /\ []EveryFileHandled
    /\ [](input_dir_exists => <>(t_pc = "finished"))

C20_Witness ==
    /\ t_pc = "finished"
    /\ Len(files) = 2
    /\ files[1] = FileUnreadable
    /\ files[2] = WeatherFile
    /\ outputs[1] = NoValue
    /\ outputs[2] # NoValue
    /\ Len(reports) = 2


(***************************************************************************)
(* The extractor's main loop: years, events of a year, session keys of an  *)
(* event, one call of get_session_data per (year, event, session key).     *)
(* Event specifiers are round numbers; a specifier <= 0 is invalid.        *)
(***************************************************************************)

MaxYears == 2

\* YEARS of the script: the first year extracted
FirstYear == 2025

\* sessions_to_extract when the caller passes none
sessions_to_extract == <<"R", "Q">>

Dict(d) == [kind |-> "dict", get |-> d]
List(l) == [kind |-> "list", items |-> l]

\* the event specifiers one year can be given
EventLists == {<<>>, <<1>>, <<0, 2>>, <<1, 2>>}

YearsOf(n) == [i \in 1..n |-> FirstYear + i - 1]

Range(f) == {f[x] : x \in DOMAIN f}

\* the try of get_session_data: fastf1.get_session and session.load
load_raises(event_specifier, session_name_key) ==
    <<event_specifier, session_name_key>> \in load_fails

\* faulty variant: the failed load is not caught
get_session_data_load_uncaught(year, event_specifier, session_name_key) ==
    [raised |-> load_raises(event_specifier, session_name_key),
     saved  |-> ~load_raises(event_specifier, session_name_key)]

\* get_session_data as main sees it: a failed load is logged and the call
\* returns; otherwise the files of the session are written
get_session_data(year, event_specifier, session_name_key) ==
    [raised |-> FALSE,
     saved  |-> ~load_raises(event_specifier, session_name_key)]

\* current_year_events_specifiers of one year, and whether the schedule
\* fetch ended the iteration with continue
events_of_year(year) ==
    IF events_list = None
    THEN IF schedule[year] = Raises
         THEN [continue |-> TRUE, events |-> <<>>]
         ELSE [continue |-> schedule[year].items = <<>>,
               events   |-> schedule[year].items]
    ELSE IF events_list.kind = "dict"
    THEN [continue |-> FALSE,
          events   |-> IF year \in DOMAIN events_list.get
                       THEN events_list.get[year] ELSE <<>>]
    ELSE [continue |-> FALSE, events |-> events_list.items]

InitMain ==
    /\ CodecUnused
    /\ SessionUnused
    /\ TransformUnused
    /\ TelemetryUnused
    /\ m_pc = "years"
    /\ \E n \in 1..MaxYears : years_list = YearsOf(n)
    /\ \/ /\ events_list = None
          /\ \E sc \in [Range(years_list) ->
                           {Raises} \cup {List(l) : l \in EventLists \ {<<0, 2>>}}] :
                schedule = sc
       \/ /\ \E ys \in SUBSET Range(years_list) : \E d \in [ys -> EventLists] :
                events_list = Dict(d)
          /\ schedule = NoValue
       \/ /\ \E l \in EventLists : events_list = List(l)
          /\ schedule = NoValue
    /\ load_fails \in SUBSET ({1, 2} \X Range(sessions_to_extract))
    /\ year_index = 0
    /\ current_year_events_specifiers = <<>>
    /\ event_index = 0
    /\ session_index = 0
    /\ attempts = <<>>
    /\ session_output = {}

\* for year in years_list: one iteration up to the loop over the events
NextYear ==
    /\ m_pc = "years"
    /\ year_index < Len(years_list)
    /\ year_index' = year_index + 1
    /\ LET found == events_of_year(years_list[year_index + 1])
       IN  IF found.continue \/ found.events = <<>>
           THEN UNCHANGED <<m_pc, current_year_events_specifiers, event_index>>
           ELSE /\ current_year_events_specifiers' = found.events
                /\ event_index' = 0
                /\ m_pc' = "events"
    /\ UNCHANGED <<years_list, events_list, schedule, load_fails, session_index,
                   attempts, session_output, codec_vars, session_vars,
                   transform_vars, telemetry_vars>>

\* for event_specifier in current_year_events_specifiers: one iteration up to
\* the loop over the session keys; fastf1.get_event raising only logs
NextEvent ==
    /\ m_pc = "events"
    /\ event_index < Len(current_year_events_specifiers)
    /\ event_index' = event_index + 1
    /\ IF current_year_events_specifiers[event_index + 1] <= 0
       THEN UNCHANGED <<m_pc, session_index>>
       ELSE /\ session_index' = 0
            /\ m_pc' = "sessions"
    /\ UNCHANGED <<years_list, events_list, schedule, load_fails, year_index,
                   current_year_events_specifiers, attempts, session_output,
                   codec_vars, session_vars, transform_vars, telemetry_vars>>

\* for session_key in sessions_to_extract: get_session_data(...)
ExtractSession ==
    /\ m_pc = "sessions"
    /\ session_index < Len(sessions_to_extract)
    /\ session_index' = session_index + 1
    /\ LET year            == years_list[year_index]
           event_specifier == current_year_events_specifiers[event_index]
           session_key     == sessions_to_extract[session_index + 1]
           call            == get_session_data(year, event_specifier, session_key)
       IN  /\ attempts' = Append(attempts, <<year, event_specifier, session_key>>)
           /\ session_output' =
                 IF call.saved
                 THEN session_output \cup {<<year, event_specifier, session_key>>}
                 ELSE session_output
           /\ m_pc' = IF call.raised THEN "crashed" ELSE m_pc
    /\ UNCHANGED <<years_list, events_list, schedule, load_fails, year_index,
                   current_year_events_specifiers, event_index,
                   codec_vars, session_vars, transform_vars, telemetry_vars>>

\* the session keys of the event are exhausted
EndSessions ==
    /\ m_pc = "sessions"
    /\ session_index = Len(sessions_to_extract)
    /\ m_pc' = "events"
    /\ UNCHANGED <<years_list, events_list, schedule, load_fails, year_index,
                   current_year_events_specifiers, event_index, session_index,
                   attempts, session_output,
                   codec_vars, session_vars, transform_vars, telemetry_vars>>

\* the events of the year are exhausted
EndEvents ==
    /\ m_pc = "events"
    /\ event_index = Len(current_year_events_specifiers)
    /\ m_pc' = "years"
    /\ UNCHANGED <<years_list, events_list, schedule, load_fails, year_index,
                   current_year_events_specifiers, event_index, session_index,
                   attempts, session_output,
                   codec_vars, session_vars, transform_vars, telemetry_vars>>

\* "--- Data extraction process finished ---"
FinishExtraction ==
    /\ m_pc = "years"
    /\ year_index = Len(years_list)
    /\ m_pc' = "finished"
    /\ UNCHANGED <<years_list, events_list, schedule, load_fails, year_index,
                   current_year_events_specifiers, event_index, session_index,
                   attempts, session_output,
                   codec_vars, session_vars, transform_vars, telemetry_vars>>

NextMain ==
    \/ NextYear
    \/ NextEvent
    \/ ExtractSession
    \/ EndSessions
    \/ EndEvents
    \/ FinishExtraction

SpecMain == InitMain /\ [][NextMain]_vars

\* main is a sequential program: it takes its next step as long as it has one
SpecMainFair == SpecMain /\ WF_vars(NextMain)


(* Claims about the main loop *)

\* the events configured for a year: the schedule's rounds, the dict's entry
\* or the list; none when the schedule fetch fails
ConfiguredEvents(y) ==
    IF events_list = None
    THEN IF schedule[y] = Raises THEN <<>> ELSE schedule[y].items
    ELSE IF events_list.kind = "dict"
    THEN IF y \in DOMAIN events_list.get THEN events_list.get[y] ELSE <<>>
    ELSE events_list.items

\* every (year, event, session key) of the configuration, in order
RECURSIVE ConfiguredFrom(_, _, _)
ConfiguredFrom(i, j, k) ==
    IF i > Len(years_list) THEN <<>>
    ELSE IF j > Len(ConfiguredEvents(years_list[i])) THEN ConfiguredFrom(i + 1, 1, 1)
    ELSE IF k > Len(sessions_to_extract) \/ ConfiguredEvents(years_list[i])[j] <= 0
         THEN ConfiguredFrom(i, j + 1, 1)
    ELSE <<<<years_list[i], ConfiguredEvents(years_list[i])[j],
             sessions_to_extract[k]>>>> \o ConfiguredFrom(i, j, k + 1)

Configured == ConfiguredFrom(1, 1, 1)

LoadFailed(a) == <<a[2], a[3]>> \in load_fails

\* main has not stopped on an exception, a session whose load failed has no
\* file, and the calls made so far are the configured ones in order
FailedLoadsSkipped ==
    /\ m_pc # "crashed"
    /\ \A k \in 1..Len(attempts) :
          LoadFailed(attempts[k]) => attempts[k] \notin session_output
    /\ Len(attempts) <= Len(Configured)
    /\ attempts = SubSeq(Configured, 1, Len(attempts))

ExtractionComplete ==
    /\ m_pc = "finished"
    /\ attempts = Configured

AsRead(text) ==
    IF text \in na_values \cup default_na_values THEN Str(<<>>) ELSE Str(text)

\* column c2 of the saved file i holds the cells column c had on input
HoldsOriginal(i, c2, c) ==
    /\ Len(outputs[i][c2]) = Len(files[i].table[c])
    /\ \A r \in 1..Len(files[i].table[c]) :
          outputs[i][c2][r] = AsRead(files[i].table[c][r])

\* C22: in every saved file, the values a registered column had before its
\* transformation are still available in some column of the resulting
\* table, next to the transformed values.
C22_OriginalColumnPreserved ==
    \A i \in 1..Len(files) :
        SavedFile(i)
        => \A c \in DOMAIN files[i].table :
              ~Unregistered(files[i].name, c)
              => \E c2 \in DOMAIN outputs[i] : HoldsOriginal(i, c2, c)


(* A transformation applied to its own result *)

\* C23: the numeric encoder applied to the cell it has written returns that
\* cell, and the decode pass applied to the decoded cell as it was written
\* to the CSV file gives the value of the first pass.
C23_TransformationsIdempotent ==
    /\ pc = "encoded_again" => second_pass = cell
    /\ pc = "parsed_again" => second_pass = td

\* the half of C23 about the encoders alone
C23_EncodersIdempotent == pc = "encoded_again" => second_pass = cell


(* The dashboard against the extractor and the transform *)

\* the seconds of a decoded duration, missing for NaT
SecondsOf(t) ==
    IF t = NaT THEN NaN
    ELSE Num(t.ms < 0, IF t.ms < 0 THEN 0 - t.ms ELSE t.ms, 0)

\* C24: for every cell written by one of the three numeric encoders, the
\* seconds safe_to_timedelta_seconds gives for the cell are the seconds of
\* the duration parse_custom_format_to_timedelta decodes from it.
C24_DashboardAgreesWithDecoder ==
    pc = "dashboard" /\ arg.kind = "num" => seconds = SecondsOf(td)

\* the same for the cells of format_seconds_to_hhmmssms and
\* format_seconds_to_hhmmss that fit the two-digit hours field
C24_FourGroupAndHmsAgree ==
    pc = "dashboard" /\ arg.kind = "num"
    /\ variant \in {"HHMMSS", "HHMMSSMS"} /\ td # NaT
    => seconds = SecondsOf(td)

\* C30: for every whole number of milliseconds within 24 hours either side
\* of zero, the dashboard's format_seconds_to_hms_ms gives the string the
\* extractor's format_seconds_to_hhmmssms gives.
C30_DashboardFormatterAgrees ==
    pc = "shown" /\ arg.kind = "num" /\ arg.us = 0 /\ arg.ms <= 86400000
    => cell = format_seconds_to_hhmmssms(arg)


(* The report of one call of transform_csv_file *)

\* the file of the k-th report was read: the call saved it or skipped the save
ReadSuccessfully(k) == reports[k].outcome \in {"saved", "skipped_save"}

\* the columns of the file of the k-th report that some read-side table names
RegisteredPresent(k) ==
    {c \in DOMAIN files[reports[k].file].table :
        ~Unregistered(files[reports[k].file].name, c)}

MaxLaps == 2

\* a LapNumber cell that holds a number
LapNo(n) == [kind |-> "lapno", n |-> n]

Lap(lap_time, lap_number, lookup, telemetry) ==
    [LapTime |-> lap_time, LapNumber |-> lap_number, lookup |-> lookup,
     telemetry |-> telemetry]

\* telemetry is "with_time" (rows and a Time column), "without_time" (rows,
\* no Time column), "empty" (no rows) or "raises" (get_telemetry raises)
LapTimeCell == Str(<<"0", "1", ":", "2", "9", ":", "5", "6", "7">>)

LapPool ==
    {Lap(LapTimeCell, LapNo(5), "found", t) :
        t \in {"with_time", "without_time", "empty", "raises"}}
    \cup {Lap(NaN, LapNo(5), "found", "with_time"),
          Lap(LapTimeCell, NaN, "found", "with_time"),
          Lap(LapTimeCell, LapNo(5), "raises", "with_time")}

LapsColumns ==
    {{"DriverNumber", "Driver", "LapNumber", "LapTime"},
     {"Driver", "LapNumber", "LapTime"},
     {"LapNumber", "LapTime"},
     {"Driver", "LapTime"}}

\* the start of the lap in the telemetry, as the provider gives it
FirstTelemetryTime == Timedelta(3725400)

\* timedelta_to_seconds is called at line 377 and defined or imported
\* nowhere: the call raises NameError
timedelta_to_seconds(t) == Raises

\* 'DriverNumber' if it is a column, else 'Driver' if it is, else None
driver_id_col(columns) ==
    IF "DriverNumber" \in columns THEN "DriverNumber"
    ELSE IF "Driver" \in columns THEN "Driver"
    ELSE "None"

\* all(col in laps_df.columns for col in required_cols_for_telemetry)
required_cols_present(columns) ==
    /\ driver_id_col(columns) # "None"
    /\ driver_id_col(columns) \in columns
    /\ "LapNumber" \in columns
    /\ "LapTime" \in columns

\* the value of the summary's TelemetryLapStartTime_seconds entry
telemetry_lap_start_seconds(telemetry) ==
    IF telemetry = "with_time" THEN timedelta_to_seconds(FirstTelemetryTime)
    ELSE NaN

\* one pass of the loop body for a lap: the summary row it appends, or
\* NoValue when it appends none
lap_summary(i, lap) ==
    IF isna(lap.LapTime) THEN NoValue                    \* continue
    ELSE IF lap.LapNumber = NaN THEN NoValue             \* continue
    ELSE IF lap.lookup = "raises" THEN NoValue           \* except e_lap_lookup
    ELSE IF lap.telemetry = "raises" THEN NoValue        \* except e_telemetry
    ELSE IF lap.telemetry = "empty" THEN NoValue
    ELSE IF telemetry_lap_start_seconds(lap.telemetry) = Raises
    THEN NoValue                                         \* except e_telemetry
    ELSE [lap |-> i,
          LapNumber |-> lap.LapNumber,
          TelemetryLapStartTime_seconds |->
              telemetry_lap_start_seconds(lap.telemetry)]

InitTelemetry ==
    /\ CodecUnused
    /\ SessionUnused
    /\ TransformUnused
    /\ MainUnused
    /\ tel_pc = "start"
    /\ laps_df_columns \in LapsColumns
    /\ \E n \in 0..MaxLaps : \E ls \in [1..n -> LapPool] : lap_rows = ls
    /\ lap_index = 0
    /\ all_lap_telemetry_summary = <<>>
    /\ lap_telemetry_summary_csv = NoValue

\* the two checks on the columns of laps_df before the loops
BeginTelemetry ==
    /\ tel_pc = "start"
    /\ tel_pc' = IF required_cols_present(laps_df_columns) THEN "laps" ELSE "done"
    /\ UNCHANGED <<laps_df_columns, lap_rows, lap_index,
                   all_lap_telemetry_summary, lap_telemetry_summary_csv,
                   codec_vars, session_vars, transform_vars, main_vars>>

\* the body of the inner loop for the next lap
SummariseLap ==
    /\ tel_pc = "laps"
    /\ lap_index < Len(lap_rows)
    /\ lap_index' = lap_index + 1
    /\ LET summary == lap_summary(lap_index + 1, lap_rows[lap_index + 1])
       IN  all_lap_telemetry_summary' =
               IF summary = NoValue THEN all_lap_telemetry_summary
               ELSE Append(all_lap_telemetry_summary, summary)
    /\ UNCHANGED <<tel_pc, laps_df_columns, lap_rows, lap_telemetry_summary_csv,
                   codec_vars, session_vars, transform_vars, main_vars>>

\* `if all_lap_telemetry_summary:` the file is written, else only a log line
SaveTelemetrySummary ==
    /\ tel_pc = "laps"
    /\ lap_index = Len(lap_rows)
    /\ lap_telemetry_summary_csv' =
           IF all_lap_telemetry_summary # <<>> THEN all_lap_telemetry_summary
           ELSE lap_telemetry_summary_csv
    /\ tel_pc' = "done"
    /\ UNCHANGED <<laps_df_columns, lap_rows, lap_index,
                   all_lap_telemetry_summary,
                   codec_vars, session_vars, transform_vars, main_vars>>

NextTelemetry ==
    \/ BeginTelemetry
    \/ SummariseLap
    \/ SaveTelemetrySummary

SpecTelemetry == InitTelemetry /\ [][NextTelemetry]_vars

(* Claim about the telemetry summary *)

\* the lap has a LapTime, its original lap is found and its telemetry has
\* rows and a Time column
HasTimedTelemetry(i) ==
    /\ ~isna(lap_rows[i].LapTime)
    /\ lap_rows[i].LapNumber # NaN
    /\ lap_rows[i].lookup = "found"
    /\ lap_rows[i].telemetry = "with_time"

\* C26: when the laps table has a driver id column, LapNumber and LapTime,
\* the finished block has written lap_telemetry_summary.csv with one row
\* for every lap that has a LapTime, a resolvable original lap and
\* non-empty telemetry with a Time column, and the row's
\* TelemetryLapStartTime_seconds is a number.
C26_TelemetrySummaryProduced ==
    tel_pc = "done" /\ required_cols_present(laps_df_columns)
    => \A i \in 1..Len(lap_rows) :
          HasTimedTelemetry(i)
          => /\ lap_telemetry_summary_csv # NoValue
             /\ \E k \in 1..Len(lap_telemetry_summary_csv) :
                   /\ lap_telemetry_summary_csv[k].lap = i
                   /\ lap_telemetry_summary_csv[k]
                          .TelemetryLapStartTime_seconds.kind = "num"

\* what the block does instead: no row ever carries a start time
C26_StartTimeAlwaysMissing ==
    \A k \in 1..Len(all_lap_telemetry_summary) :
        all_lap_telemetry_summary[k].TelemetryLapStartTime_seconds = NaN


(* The three patterns of the decoder *)

Patterns == {HMSMS, MSMS, HMS}

\* the text the patterns are tried on
TimeStr == strip(str(cell))

MatchingPatterns == {p \in Patterns : re_fullmatch(p, TimeStr).ok}

\* the text handed to pd.to_timedelta for a match of pattern p
TdStr(p, m) ==
    IF p = HMSMS
    THEN m.sign \o m.groups[1] \o <<":">> \o m.groups[2] \o <<":">>
                \o m.groups[3] \o <<".">> \o m.groups[4]
    ELSE IF p = MSMS THEN msms_td_str(m)
    ELSE m.sign \o m.groups[1] \o <<":">> \o m.groups[2] \o <<":">> \o m.groups[3]

\* the decoder with its three attempts made in the given order
RECURSIVE DecodeInOrder(_)
DecodeInOrder(order) ==
    IF order = <<>> THEN NaT
    ELSE IF re_fullmatch(Head(order), TimeStr).ok
    THEN to_timedelta(TdStr(Head(order), re_fullmatch(Head(order), TimeStr)))
    ELSE DecodeInOrder(Tail(order))

Orders ==
    {o \in [1..3 -> Patterns] : \A i, j \in 1..3 : i # j => o[i] # o[j]}

Decodable == ~parser_missing(cell) /\ lower(TimeStr) \notin MissingTokens

\* C27: at most one of the three whole-string patterns matches the text of
\* a cell, and the decoder's result is the one every order of the three
\* attempts gives.
C27_PatternsMutuallyExclusive ==
    pc = "parsed" /\ Decodable
    => /\ Cardinality(MatchingPatterns) <= 1
       /\ \A o \in Orders : DecodeInOrder(o) = td

\* a decoded cell that one pattern matches, read from a file with a sign
\* and surrounding blanks
C27_Witness ==
    /\ pc = "parsed"
    /\ Decodable
    /\ variant = "CSV"
    /\ MatchingPatterns = {MSMS}
    /\ td # NaT
    /\ TimeStr # str(cell)


(* Sign and rounding *)

StrictlyNegative(v) == v.neg /\ (v.ms > 0 \/ v.us > 0)

\* the all-zero string of a variant
ZeroString(var) ==
    CASE var = "MMSSMS"   -> <<"0", "0", ":", "0", "0", ":", "0", "0", "0">>
      [] var = "HHMMSS"   -> <<"0", "0", ":", "0", "0", ":", "0", "0">>
      [] var = "HHMMSSMS" -> <<"0", "0", ":", "0", "0", ":", "0", "0", ":",
                               "0", "0", "0">>

\* C28: a numeric encoder writes a leading "-" exactly for a strictly
\* negative input; a negative input whose magnitude rounds to zero is
\* written as "-" and the all-zero string, and that string decodes to the
\* zero duration, as the unsigned all-zero string does.
C28_SignDecidedBeforeRounding ==
    pc = "parsed" /\ variant \in NumericVariants /\ arg.kind = "num"
    => /\ cell.kind = "str"
       /\ cell.s[1] = "-" <=> StrictlyNegative(arg)
       /\ StrictlyNegative(arg) /\ FieldsMs(variant, cell.s) = 0
          => /\ cell.s = <<"-">> \o ZeroString(variant)
             /\ td = Timedelta(0)
             /\ td = parse_custom_format_to_timedelta(Str(ZeroString(variant)))

\* minus half a microsecond short of half a millisecond rounds to zero
\* milliseconds and keeps its sign
C28_Witness ==
    /\ pc = "parsed" /\ variant = "MMSSMS"
    /\ arg = Num(TRUE, 0, 499)
    /\ cell = Str(<<"-", "0", "0", ":", "0", "0", ":", "0", "0", "0">>)
    /\ td = Timedelta(0)


(* Values wider than the fields *)

\* the smallest magnitude, in milliseconds, whose leading field needs three
\* digits: 100 minutes for MMSSMS, 100 hours for the other two
WidthLimitMs(var) == IF var = "MMSSMS" THEN 6000000 ELSE 360000000

LeadingField(s) == SplitColon(Unsigned(s))[1]

\* C29: a duration of at least 100 minutes is written by
\* format_seconds_to_mmssms with a minutes field of three or more digits,
\* one of at least 100 hours by format_seconds_to_hhmmssms and
\* format_seconds_to_hhmmss with such an hours field, and the decoder gives
\* missing for the string, never a duration.
C29_OutOfWidthLostOnRead ==
    (/\ pc = "parsed" /\ variant \in NumericVariants
     /\ arg.kind = "num" /\ arg.ms >= WidthLimitMs(variant))
    => /\ cell.kind = "str"
       /\ Len(LeadingField(cell.s)) >= 3
       /\ AllDigits(LeadingField(cell.s))
       /\ td = NaT

\* minus 100 hours: the hours field is "100" and the decoder gives missing
C29_Witness ==
    /\ pc = "parsed" /\ variant = "HHMMSSMS"
    /\ arg = Num(TRUE, 360000000, 0)
    /\ cell = Str(<<"-", "1", "0", "0", ":", "0", "0", ":", "0", "0", ":",
                    "0", "0", "0">>)
    /\ td = NaT
    /\ warning = NoMatchWarning

====
